---- MODULE Spec2Model ----
(***************************************************************************)
(* The OAuth2 / OpenID Connect flow of ericchiang/poke: the handlers of    *)
(* server/handlers.go and the request parsing of server/oauth2.go over the  *)
(* storage.Storage interface.  Every HTTP request is a handler instance in  *)
(* a slot of reqs; a handler runs as a sequence of steps, one per storage   *)
(* call, so that concurrent handlers interleave exactly at their storage    *)
(* calls.                                                                   *)
(***************************************************************************)
EXTENDS Integers, Sequences, FiniteSets, TLC

VARIABLES
    clients,        \* storage: Client rows, keyed by Client.ID
    authRequests,   \* storage: AuthRequest rows, keyed by AuthRequest.ID
    authCodes,      \* storage: AuthCode rows, keyed by AuthCode.ID
    refreshTokens,  \* storage: Refresh rows, keyed by Refresh.RefreshToken
    now,            \* the server's clock (s.now), in minutes
    nextNonce,      \* the next value storage.NewNonce returns
    skipApproval,   \* Server.skipApproval
    reqs,           \* the HTTP handlers in flight, one per slot
    last,           \* the request that completed last, with its response
    codesIssued,    \* history: AuthRequest.ID -> number of AuthCodes created from it
    tokensIssued,   \* history: code or refresh token -> number of token responses
    redirectMismatch, \* history: the codes a request was refused for, on its redirect_uri
    logins,         \* the authorization requests accepted so far
    keys,           \* storage: the Keys record
    nonces          \* storage: Nonce rows, value -> Nonce

vars == <<clients, authRequests, authCodes, refreshTokens, now, nextNonce,
          skipApproval, reqs, last, codesIssued, tokensIssued, redirectMismatch,
          logins, keys, nonces>>

\* what no handler of the authorization and token endpoints writes
staticVars == <<skipApproval, keys, nonces>>

historyVars == <<codesIssued, tokensIssued, redirectMismatch>>

storageVars == <<clients, authRequests, authCodes, refreshTokens>>

-----------------------------------------------------------------------------
(* Bounds of the model. *)

\* concurrent HTTP handlers
MaxInFlight == 2
\* authorization requests the server accepts
MaxLogins == 1
\* values storage.NewNonce hands out
MaxNonce == 4
\* the clock stops here
MaxTime == 7

Slots == 1..MaxInFlight
\* the values NewNonce can return; 0 stands for a string no NewNonce call returned
Ids == 1..MaxNonce

-----------------------------------------------------------------------------
(* Constants of the program. *)

errInvalidRequest == "invalid_request"
errUnauthorizedClient == "unauthorized_client"
errInvalidScope == "invalid_scope"
errServerError == "server_error"
errInvalidGrant == "invalid_grant"
errInvalidClient == "invalid_client"

\* A scope string is the tuple of its parts: <<name>>, or <<prefix, peer>> for a
\* cross-client scope, so that strings.HasPrefix and the slice after the prefix
\* are computed.
scopeOfflineAccess == <<"offline_access">>
scopeOpenID == <<"openid">>
scopeGroups == <<"groups">>
scopeEmail == <<"email">>
scopeProfile == <<"profile">>
scopeCrossClientPrefix == "oauth2:server:client_id:"

validResponseTypes == {"code", "token", "id_token"}

StatusOK == 200
StatusFound == 302
StatusSeeOther == 303
StatusBadRequest == 400
StatusUnauthorized == 401
StatusNotFound == 404
StatusInternalServerError == 500

\* time.Minute * 5, the lifetime sendCodeResponse gives an AuthCode
CodeLifetime == 5
\* the zero time.Time, the Expiry of a record whose Expiry was never set
ZeroTime == 0

\* A URI is the record of its parts, so that prefixes and ports are computed:
\* port is Nil when the text has no ":PORT".
URI(scheme, host, port, path) == [scheme |-> scheme, host |-> host, port |-> port, path |-> path]

oobRedirectURI == URI("urn", "ietf:wg:oauth:2.0:oob", <<>>, "")

-----------------------------------------------------------------------------
(* Go values. *)

\* a nil pointer, and a pointer to x
Nil == <<>>
Ptr(x) == <<x>>
Deref(p) == p[1]

Range(s) == {s[k] : k \in DOMAIN s}

\* strings.HasPrefix(scope, prefix) on a scope string
HasPrefix(scope, prefix) == Len(scope) >= 1 /\ scope[1] = prefix

-----------------------------------------------------------------------------
(* storage.Storage: rows keyed by id; a missing row is ErrNotFound. *)

Has(rows, id) == id \in DOMAIN rows
Put(rows, id, row) == [k \in DOMAIN rows \cup {id} |-> IF k = id THEN row ELSE rows[k]]
Remove(rows, id) == [k \in DOMAIN rows \ {id} |-> rows[k]]
NoRows == [k \in {} |-> Nil]

\* GetClient, GetAuthRequest, GetAuthCode, GetRefresh: a pointer to the row, or
\* Nil for ErrNotFound
Get(rows, id) == IF Has(rows, id) THEN Ptr(rows[id]) ELSE Nil

\* storage.Identity, as a connector returns it
Identity(userID, username, email, verified, groups, data) ==
    [UserID |-> userID, Username |-> username, Email |-> email,
     EmailVerified |-> verified, Groups |-> groups, ConnectorData |-> data]

\* storage.Client
Client(id, secret, redirectURIs, trustedPeers, public) ==
    [ID |-> id, Secret |-> secret, RedirectURIs |-> redirectURIs,
     TrustedPeers |-> trustedPeers, Public |-> public]

\* description of an error: fmt.Sprintf(format, args...)
Sprintf(format, args) == [fmt |-> format, args |-> args]

\* oauth2Error{RedirectURI, Type, Description}; RedirectURI "" is Nil
oauth2Error(redirectURI, typ, description) ==
    [RedirectURI |-> redirectURI, Type |-> typ, Description |-> description]

-----------------------------------------------------------------------------
(* storage/keys.go: the Keys record and its methods.  A key is the number of
   its generation; a signing key pair has one number for both halves. *)

DecryptionKey(key, expiry) == [Key |-> key, Expiry |-> expiry]
VerificationKey(publicKey, expiry) == [PublicKey |-> publicKey, Expiry |-> expiry]

\* storage.Keys; the keys are pointers, Nil when there is none
Keys(signingKey, signingKeyPub, verificationKeys, encryptionKey, decryptionKeys, nextRotation) ==
    [SigningKey |-> signingKey, SigningKeyPub |-> signingKeyPub,
     VerificationKeys |-> verificationKeys, EncryptionKey |-> encryptionKey,
     DecryptionKeys |-> decryptionKeys, NextRotation |-> nextRotation]

\* json.Marshal(v) of a value and json.Unmarshal: text that holds a value, or
\* text that is no JSON
JSONText(v) == [json |-> TRUE, v |-> v]
NotJSON == [json |-> FALSE, v |-> ""]

\* cryptopasta.Encrypt(data, key): sealed text that opens under that key only
Sealed(data, key) == [key |-> key, data |-> data]

\* base64.RawURLEncoding: the text of some bytes, or text that is no base64
Base64(bytes) == [base64 |-> TRUE, bytes |-> bytes]
NotBase64 == [base64 |-> FALSE, bytes |-> Sealed(NotJSON, 0)]

\* Keys.Encrypt(v); the caller holds an encryption key
Encrypt(k, v) == Base64(Sealed(JSONText(v), Deref(k.EncryptionKey)))

\* decrypt(key, expiry, cipherText, v) at time t: [ok, err, v]
decrypt(key, expiry, cipherText, t) ==
    IF expiry # ZeroTime /\ expiry > t
    THEN [ok |-> FALSE, err |-> FALSE, v |-> ""]
    ELSE IF cipherText.key # key
    THEN [ok |-> FALSE, err |-> FALSE, v |-> ""]
    ELSE IF ~cipherText.data.json
    THEN [ok |-> FALSE, err |-> TRUE, v |-> ""]
    ELSE [ok |-> TRUE, err |-> FALSE, v |-> cipherText.data.v]

\* the loop of Keys.Decrypt over k.DecryptionKeys from index j on
RECURSIVE decryptWith(_, _, _, _)
decryptWith(decryptionKeys, j, cipherText, t) ==
    IF j > Len(decryptionKeys) THEN [ok |-> FALSE, err |-> TRUE, v |-> ""]
    ELSE LET d == decrypt(decryptionKeys[j].Key, decryptionKeys[j].Expiry, cipherText, t)
         IN  IF d.err \/ d.ok THEN d
             ELSE decryptWith(decryptionKeys, j + 1, cipherText, t)

\* Keys.Decrypt(cipherText, v) at time t: [ok, err, v], err for a returned error
Decrypt(k, cipherText, t) ==
    LET first == IF k.EncryptionKey = Nil THEN [ok |-> FALSE, err |-> FALSE, v |-> ""]
                 ELSE decrypt(Deref(k.EncryptionKey), ZeroTime, cipherText.bytes, t)
    IN  IF ~cipherText.base64 THEN [ok |-> FALSE, err |-> TRUE, v |-> ""]
        ELSE IF first.err \/ first.ok THEN first
        ELSE decryptWith(k.DecryptionKeys, 1, cipherText.bytes, t)

\* Keys.Sign(payload): a pointer to the JWS, which names the key pair that
\* signed it, or Nil (an error) without a signing key
Sign(k, payload) ==
    IF k.SigningKey = Nil THEN Nil
    ELSE Ptr([payload |-> payload, key |-> Deref(k.SigningKey)])

-----------------------------------------------------------------------------
(* server/oauth2.go *)

\* parseCrossClientScope: <<peerID, ok>>
parseCrossClientScope(scope) ==
    IF HasPrefix(scope, scopeCrossClientPrefix)
    THEN <<IF Len(scope) >= 2 THEN scope[2] ELSE "", TRUE>>
    ELSE <<"", FALSE>>

\* a validation that trusts every peer
validateCrossClientTrustAnyPeer(s, clientID, peerID) == TRUE

\* validateCrossClientTrust(s, clientID, peerID): trusted (the in-memory
\* GetClient returns no error but ErrNotFound)
validateCrossClientTrust(s, clientID, peerID) ==
    IF peerID = clientID THEN TRUE
    ELSE LET peer == Get(s, peerID) IN
         IF peer = Nil THEN FALSE
         ELSE clientID \in Range(Deref(peer).TrustedPeers)

\* strings.HasPrefix(redirectURI, scheme + "://localhost:")
HasLocalhostPrefix(uri, scheme) ==
    uri.scheme = scheme /\ uri.host = "localhost" /\ uri.port # Nil

\* strconv.Atoi(strings.TrimPrefix(redirectURI, scheme + "://localhost:")):
\* a pointer to the number, or Nil for an error.  Without the prefix the whole
\* URI is parsed, which is no number; with it, what follows is PORT and path.
AtoiTrimLocalhostPrefix(uri, scheme) ==
    IF HasLocalhostPrefix(uri, scheme) /\ uri.path = "" THEN uri.port ELSE Nil

validateRedirectURI(client, redirectURI) ==
    IF ~client.Public
    THEN redirectURI \in Range(client.RedirectURIs)
    ELSE IF redirectURI = oobRedirectURI THEN TRUE
    ELSE IF ~HasLocalhostPrefix(redirectURI, "http") THEN FALSE
    ELSE LET n == AtoiTrimLocalhostPrefix(redirectURI, "https") IN
         n # Nil /\ Deref(n) <= 0

\* a parse that recognizes every scope
unrecognizedScopesNone(scopes) == <<>>

\* the scopes parseAuthorizationRequest collects as unrecognized
unrecognizedScopes(scopes) ==
    SelectSeq(scopes, LAMBDA scope:
        /\ scope \notin {scopeOpenID, scopeOfflineAccess, scopeEmail, scopeProfile, scopeGroups}
        /\ ~parseCrossClientScope(scope)[2])

\* the cross-client scopes whose peer does not trust the client
invalidScopes(s, clientID, scopes) ==
    SelectSeq(scopes, LAMBDA scope:
        /\ scope \notin {scopeOpenID, scopeOfflineAccess, scopeEmail, scopeProfile, scopeGroups}
        /\ parseCrossClientScope(scope)[2]
        /\ ~validateCrossClientTrust(s, clientID, parseCrossClientScope(scope)[1]))

\* storage.AuthRequest as parseAuthorizationRequest builds it: Identity, ConnectorID
\* and Expiry keep their zero values
AuthRequest(id, form) ==
    [ID |-> id, ClientID |-> form.client_id, State |-> form.state, Nonce |-> form.nonce,
     ForceApprovalPrompt |-> form.approval_prompt = "force",
     Scopes |-> form.scope, RedirectURI |-> form.redirect_uri,
     ResponseTypes |-> form.response_type,
     Identity |-> Nil, ConnectorID |-> "", Expiry |-> ZeroTime]

\* the zero storage.AuthRequest, the req parseAuthorizationRequest returns
\* beside an error
ZeroAuthRequest ==
    [ID |-> 0, ClientID |-> "", State |-> "", Nonce |-> "",
     ForceApprovalPrompt |-> FALSE, Scopes |-> <<>>, RedirectURI |-> URI("", "", <<>>, ""),
     ResponseTypes |-> <<>>, Identity |-> Nil, ConnectorID |-> "", Expiry |-> ZeroTime]

\* parseAuthorizationRequest(s, r): [req, err], err Nil or a pointer to an
\* oauth2Error; id is the value NewNonce returns
parseAuthorizationRequest(s, form, id) ==
    LET fail(e) == [req |-> ZeroAuthRequest, err |-> Ptr(e)]
        newErr(typ, description) == oauth2Error(Ptr(form.redirect_uri), typ, description)
        client == Get(s, form.client_id)
        unrecognized == unrecognizedScopes(form.scope)
        invalid == invalidScopes(s, form.client_id, form.scope)
        badTypes == SelectSeq(form.response_type, LAMBDA t: t \notin validResponseTypes)
    IN  IF client = Nil
        THEN fail(oauth2Error(Nil, errUnauthorizedClient,
                              Sprintf("Invalid client_id (%q).", <<form.client_id>>)))
        ELSE IF ~validateRedirectURI(Deref(client), form.redirect_uri)
        THEN fail(oauth2Error(Nil, errInvalidRequest,
                              Sprintf("Unregistered redirect_uri (%q).", <<form.redirect_uri>>)))
        ELSE IF scopeOpenID \notin Range(form.scope)
        THEN fail(newErr(errInvalidScope,
                         Sprintf("Missing required scope(s) [\"openid\"].", <<>>)))
        ELSE IF Len(unrecognized) > 0
        THEN fail(newErr(errInvalidScope, Sprintf("Unrecognized scope(s) %q", unrecognized)))
        ELSE IF Len(invalid) > 0
        THEN fail(newErr(errInvalidScope, Sprintf("Client can't request scope(s) %q", invalid)))
        ELSE IF Len(badTypes) > 0
        THEN fail(newErr(errInvalidRequest,
                         Sprintf("Invalid response type %q", <<badTypes[1]>>)))
        ELSE [req |-> AuthRequest(id, form), err |-> Nil]

\* the peers newIDToken appends to tok.Audience: those of the scopes that reach
\* the default case of its switch and parse as cross-client scopes
peerIDs(scopes) ==
    LET cross == SelectSeq(scopes, LAMBDA scope:
                     /\ scope \notin {scopeEmail, scopeGroups, scopeProfile}
                     /\ parseCrossClientScope(scope)[2])
    IN  [k \in 1..Len(cross) |-> parseCrossClientScope(cross[k])[1]]

\* a JSON string (elems holds it alone) or a JSON array of strings
JSONString(str) == [json |-> "string", elems |-> <<str>>]
JSONArray(strs) == [json |-> "array", elems |-> strs]

\* an audience always written as an array
audienceMarshalJSONArray(a) == JSONArray(a)

\* audience.MarshalJSON: one element is written as a string
audienceMarshalJSON(a) ==
    IF Len(a) = 1 THEN JSONString(a[1]) ELSE JSONArray(a)

\* json.Marshal(tok): the members of the payload; those tagged omitempty are
\* left out when empty (iss, exp and iat are not modelled)
jsonMarshal(tok) ==
    LET members == [sub |-> tok.Subject,
                    aud |-> audienceMarshalJSON(tok.Audience),
                    azp |-> tok.AuthorizingParty,
                    nonce |-> tok.Nonce,
                    email |-> tok.Email,
                    email_verified |-> tok.EmailVerified,
                    groups |-> tok.Groups,
                    name |-> tok.Name]
        omitted == {k \in {"azp", "nonce", "email", "name"} : members[k] = ""}
                   \cup {k \in {"email_verified"} : members[k] = Nil}
                   \cup {k \in {"groups"} : Len(members[k]) = 0}
    IN  [k \in DOMAIN members \ omitted |->
            IF k = "email_verified" THEN Deref(members[k]) ELSE members[k]]

\* idTokenClaims as newIDToken fills them from the scopes
idTokenClaims(clientID, claims, scopes, nonce) ==
    LET peers == peerIDs(scopes)
        hasEmail == scopeEmail \in Range(scopes)
    IN  [Subject |-> claims.UserID,
         Nonce |-> nonce,
         Email |-> IF hasEmail THEN claims.Email ELSE "",
         EmailVerified |-> IF hasEmail THEN Ptr(claims.EmailVerified) ELSE Nil,
         Groups |-> IF scopeGroups \in Range(scopes) THEN claims.Groups ELSE <<>>,
         Name |-> IF scopeProfile \in Range(scopes) THEN claims.Username ELSE "",
         Audience |-> IF Len(peers) = 0 THEN <<clientID>> ELSE peers,
         AuthorizingParty |-> IF Len(peers) = 0 THEN "" ELSE clientID]

\* an issuance that fills every claim whatever the scopes
newIDTokenAllClaims(s, clientID, claims, scopes, nonce) ==
    Ptr(jsonMarshal(idTokenClaims(clientID, claims,
                                  scopes \o <<scopeEmail, scopeGroups, scopeProfile>>,
                                  nonce)))

\* an issuance that takes the trust /auth once found for granted
newIDTokenTrusting(s, clientID, claims, scopes, nonce) ==
    Ptr(jsonMarshal(idTokenClaims(clientID, claims, scopes, nonce)))

\* an issuance that puts the ConnectorData of the identity among the claims
newIDTokenWithConnectorData(s, clientID, claims, scopes, nonce) ==
    LET payload == jsonMarshal(idTokenClaims(clientID, claims, scopes, nonce)) IN
    Ptr([k \in DOMAIN payload \cup {"connector_data"} |->
            IF k = "connector_data" THEN claims.ConnectorData ELSE payload[k]])

\* newIDToken: a pointer to the payload of the token, or Nil (an error) when a
\* peer named by a cross-client scope does not trust the client in storage s
newIDToken(s, clientID, claims, scopes, nonce) ==
    LET untrusted == SelectSeq(peerIDs(scopes), LAMBDA peerID:
                         ~validateCrossClientTrust(s, clientID, peerID))
    IN  IF Len(untrusted) > 0 THEN Nil
        ELSE Ptr(jsonMarshal(idTokenClaims(clientID, claims, scopes, nonce)))

\* newIDToken from s.storage.GetKeys() on: the payload signed with the Keys
\* record k, or Nil (an error)
signIDToken(k, payload) ==
    IF payload = Nil THEN Nil ELSE Sign(k, Deref(payload))

-----------------------------------------------------------------------------
(* HTTP: what a handler writes. *)

\* s.renderError and tokenErr: a status, an error type and a description
ErrorResponse(status, typ, description) ==
    [status |-> status, err |-> typ, desc |-> description,
     location |-> Nil, code |-> 0, token |-> Nil]

\* http.Redirect, a rendered page or "Code: ..." carrying an id
PageResponse(status, location, code) ==
    [status |-> status, err |-> "", desc |-> "",
     location |-> location, code |-> code, token |-> Nil]

\* the lifetime of an ID token, in minutes
idTokensValidFor == 10

\* the expiry newIDToken returns beside the token it built at time t
idTokenExpiry(t) == t + idTokensValidFor

\* the int64 that a time.Duration of so many minutes holds, which int(d)
\* yields and %d prints: its nanoseconds
Nanoseconds(minutes) == [minutes |-> minutes, times |-> "60e9"]

\* writeAccessToken at time t: the envelope with id_token, a JWS, refresh_token
\* (0: omitted) and expires_in, int(expiry.Sub(s.now()))
TokenResponse(idToken, refreshToken, expiry, t) ==
    [status |-> StatusOK, err |-> "", desc |-> "", location |-> Nil, code |-> 0,
     token |-> Ptr([id_token |-> idToken, refresh_token |-> refreshToken,
                    expires_in |-> Nanoseconds(expiry - t)])]

IsTokenResponse(resp) == resp.token # Nil

\* a handler slot: pc is "idle" or the storage call the handler is at, loc its
\* local variables
Request(pc, handler, loc) == [pc |-> pc, handler |-> handler, loc |-> loc]

NoLocals == [none |-> TRUE]
Idle == Request("idle", "", NoLocals)

\* a new HTTP request takes the first idle slot
Free(i) == reqs[i].pc = "idle" /\ \A j \in 1..(i - 1) : reqs[j].pc # "idle"

\* last when the latest step completed no request
NoRequest ==
    [handler |-> "", loc |-> NoLocals, resp |-> PageResponse(StatusOK, Nil, 0),
     wrote |-> FALSE]

\* the handler in slot i returns after writing resp: the slot is idle again and
\* last holds the request this step completed, with whether the step changed
\* the storage
Finish(i, handler, loc, resp) ==
    /\ reqs' = [reqs EXCEPT ![i] = Idle]
    /\ last' = [handler |-> handler, loc |-> loc, resp |-> resp,
                wrote |-> storageVars' # storageVars]

\* the handler in slot i goes on to the storage call pc
Continue(i, pc, handler, loc) ==
    /\ reqs' = [reqs EXCEPT ![i] = Request(pc, handler, loc)]
    /\ last' = NoRequest

\* the value the next storage.NewNonce call returns
NewNonce == nextNonce

NotFoundPage == ErrorResponse(StatusNotFound, "", "")
ServerError == ErrorResponse(StatusInternalServerError, errServerError, "")

-----------------------------------------------------------------------------
(* The server after construction. *)

appCallback == URI("https", "app", <<>>, "/cb")
peerCallback == URI("https", "peer", <<>>, "/cb")
evilCallback == URI("https", "evil", <<>>, "/cb")

\* c2 lists c1 as a trusted peer (scenario S5)
InitClients ==
    [id \in {"c1", "c2"} |->
        IF id = "c1" THEN Client("c1", "s1", <<appCallback>>, <<>>, FALSE)
                     ELSE Client("c2", "s2", <<peerCallback>>, <<"c1">>, FALSE)]

\* the connector registry: capabilities by connector id
\* beside ldap and mock: sso, a CallbackConnector, and directory, a
\* CallbackConnector and GroupsConnector, whose identities come with groups
Connectors ==
    [id \in {"ldap", "mock", "sso", "directory"} |->
        IF id = "ldap" THEN [password |-> TRUE, callback |-> FALSE, groups |-> FALSE]
        ELSE IF id = "sso" THEN [password |-> FALSE, callback |-> TRUE, groups |-> FALSE]
        ELSE [password |-> FALSE, callback |-> TRUE, groups |-> TRUE]]

\* the Keys record after the first rotation: one signing key pair and one
\* encryption key, none rotated out yet
InitKeys == Keys(Ptr(1), Ptr(1), <<>>, Ptr(1), <<>>, MaxTime)

Init ==
    /\ clients = InitClients
    /\ authRequests = NoRows
    /\ authCodes = NoRows
    /\ refreshTokens = NoRows
    /\ now = 1
    /\ nextNonce = 1
    /\ skipApproval \in BOOLEAN
    /\ reqs = [i \in Slots |-> Idle]
    /\ last = NoRequest
    /\ codesIssued = [id \in Ids |-> 0]
    /\ tokensIssued = [id \in Ids |-> 0]
    /\ redirectMismatch = {}
    /\ logins = 0
    /\ keys = InitKeys
    /\ nonces = NoRows

-----------------------------------------------------------------------------
(* GET /auth: handleAuthorization *)

\* the parameters of a good request
AuthForm ==
    [client_id |-> "c1", redirect_uri |-> appCallback,
     scope |-> <<scopeOpenID, scopeEmail, scopeOfflineAccess>>,
     response_type |-> <<"code">>, state |-> "xyz", nonce |-> "n1",
     approval_prompt |-> ""]

\* good requests
GoodAuthForms ==
    { AuthForm,
      [AuthForm EXCEPT !.scope = <<scopeOpenID>>],
      [AuthForm EXCEPT !.scope = <<scopeOpenID, <<scopeCrossClientPrefix, "c2">> >>],
      [AuthForm EXCEPT !.scope = <<scopeOpenID, <<scopeCrossClientPrefix, "c1">> >>] }

\* requests with one parameter wrong: the client, the redirect URI, a scope,
\* the response type
BadAuthForms ==
    { [AuthForm EXCEPT !.client_id = "cx"],
      [AuthForm EXCEPT !.redirect_uri = evilCallback],
      [AuthForm EXCEPT !.client_id = "c2"],
      [AuthForm EXCEPT !.scope = <<scopeEmail>>],
      [AuthForm EXCEPT !.scope = <<scopeOpenID, <<"pets">> >>],
      [AuthForm EXCEPT !.scope = <<scopeEmail, <<"pets">> >>],
      [AuthForm EXCEPT !.scope = <<scopeOpenID, <<scopeCrossClientPrefix, "cx">> >>],
      [AuthForm EXCEPT !.client_id = "c2", !.redirect_uri = peerCallback,
                       !.scope = <<scopeOpenID, <<scopeCrossClientPrefix, "c1">> >>],
      [AuthForm EXCEPT !.response_type = <<"code", "bogus">>] }

AuthForms == GoodAuthForms \cup BadAuthForms

\* handleAuthorization without its test of the parse error: it stores whatever
\* parseAuthorizationRequest returned
handleAuthorizationRowsUnchecked(rows, parsed, created) ==
    IF created THEN Put(rows, parsed.req.ID, parsed.req) ELSE rows

\* the AuthRequest rows after handleAuthorization: CreateAuthRequest runs only
\* when parseAuthorizationRequest returned no error (created: the Create succeeded)
handleAuthorizationRows(rows, parsed, created) ==
    IF parsed.err = Nil /\ created
    THEN Put(rows, parsed.req.ID, parsed.req)
    ELSE rows

handleAuthorizationResponse(parsed, created) ==
    IF parsed.err # Nil
    THEN ErrorResponse(StatusInternalServerError, Deref(parsed.err).Type,
                       Deref(parsed.err).Description)
    ELSE IF ~created
    THEN ServerError
    ELSE PageResponse(StatusOK, Nil, parsed.req.ID)

HandleAuthorization(i, form, created) ==
    LET parsed == parseAuthorizationRequest(clients, form, NewNonce) IN
    /\ Free(i)
    /\ parsed.err = Nil => nextNonce <= MaxNonce /\ logins < MaxLogins
    /\ authRequests' = handleAuthorizationRows(authRequests, parsed, created)
    /\ UNCHANGED <<clients, authCodes, refreshTokens>>
    /\ nextNonce' = IF parsed.err = Nil THEN nextNonce + 1 ELSE nextNonce
    /\ logins' = IF parsed.err = Nil THEN logins + 1 ELSE logins
    /\ Finish(i, "auth", [err |-> parsed.err, form |-> form],
              handleAuthorizationResponse(parsed, created))
    /\ UNCHANGED <<now, staticVars, historyVars>>

-----------------------------------------------------------------------------
(* /auth/{connector} and /callback/{connector} *)

\* the identity the connector answers with
ConnectorIdentity(connID) ==
    IF connID = "ldap"
    THEN Identity("", "jane", "", FALSE, <<>>, <<>>)
    ELSE IF connID \in {"sso", "directory"}
    THEN Identity("", "pat", "", FALSE, <<"staff">>, <<"upstream-token">>)
    ELSE Identity("", "Kilgore Trout", "kilgore@kilgore.trout", TRUE, <<>>, <<>>)

\* mockConnector.Groups
ConnectorGroups == <<"authors">>

\* a groups that asks every connector, whatever the scopes
groupsOfAnyRequest(rows, authReqID, conn, failed) ==
    [groups |-> ConnectorGroups, ok |-> TRUE, err |-> FALSE]

\* s.groups(identity, authReqID, conn): [groups, ok, err]; ok is whether
\* groupsConn.Groups was called, failed whether that call returns an error
groups(rows, authReqID, conn, failed) ==
    IF ~conn.groups THEN [groups |-> <<>>, ok |-> FALSE, err |-> FALSE]
    ELSE LET authReq == Get(rows, authReqID) IN
         IF authReq = Nil THEN [groups |-> <<>>, ok |-> FALSE, err |-> TRUE]
         ELSE IF scopeGroups \notin Range(Deref(authReq).Scopes)
         THEN [groups |-> <<>>, ok |-> FALSE, err |-> FALSE]
         ELSE IF failed THEN [groups |-> <<>>, ok |-> TRUE, err |-> TRUE]
         ELSE [groups |-> ConnectorGroups, ok |-> TRUE, err |-> FALSE]

\* the rest of a connector handler once the connector has answered: login is
\* "error", "invalid" (PasswordConnector only), "ok", or "groupsError" when the
\* connector answers and its Groups returns an error
afterConnector(i, handler, form, login) ==
    LET conn == Connectors[form.connector]
        identity == ConnectorIdentity(form.connector)
        g == groups(authRequests, form.state, conn, login = "groupsError")
    IN  IF login = "error"
        THEN Finish(i, handler, [login |-> login], ServerError)
        ELSE IF login = "invalid"
        THEN Finish(i, handler, [login |-> login], PageResponse(StatusOK, Nil, form.state))
        ELSE IF g.err
        THEN Finish(i, handler,
                    [login |-> login, connectorID |-> form.connector,
                     state |-> form.state, groupsCalled |-> g.ok],
                    ServerError)
        ELSE Continue(i, "UpdateAuthRequest", handler,
                      [identity |-> IF g.ok THEN [identity EXCEPT !.Groups = g.groups]
                                            ELSE identity,
                       connectorID |-> form.connector,
                       state |-> form.state,
                       login |-> login,
                       groupsCalled |-> g.ok])

ConnectorForms ==
    [method : {"GET", "POST"}, connector : {"ldap", "mock", "none"}, state : 0..MaxNonce]

\* POST /auth/{connector}: Login, groups; GET: the login page or the redirect
\* to the upstream
HandleConnectorLogin(i, form, login) ==
    /\ Free(i)
    /\ UNCHANGED storageVars
    /\ IF form.connector \notin DOMAIN Connectors
       THEN Finish(i, "login", NoLocals, NotFoundPage)
       ELSE IF form.method = "GET"
       THEN Finish(i, "login", NoLocals,
                   IF Connectors[form.connector].callback
                   THEN PageResponse(StatusFound, Nil, form.state)
                   ELSE IF Connectors[form.connector].password
                   THEN PageResponse(StatusOK, Nil, form.state)
                   ELSE NotFoundPage)
       ELSE IF ~Connectors[form.connector].password
       THEN Finish(i, "login", NoLocals, NotFoundPage)
       ELSE afterConnector(i, "login", form, login)
    /\ UNCHANGED <<now, nextNonce, staticVars, logins, historyVars>>

\* GET /callback/{connector}: HandleCallback, groups
HandleConnectorCallback(i, form, login) ==
    /\ Free(i)
    /\ form.method = "GET"
    /\ login # "invalid"
    /\ UNCHANGED storageVars
    /\ IF form.connector \notin DOMAIN Connectors
       THEN Finish(i, "callback", NoLocals, NotFoundPage)
       ELSE IF ~Connectors[form.connector].callback
       THEN Finish(i, "callback", NoLocals, NotFoundPage)
       ELSE afterConnector(i, "callback", form, login)
    /\ UNCHANGED <<now, nextNonce, staticVars, logins, historyVars>>

\* an updater that records the identity and leaves the connector out
updaterIdentityOnly(a, identity, connectorID) ==
    [a EXCEPT !.Identity = Ptr(identity)]

\* the updater redirectToApproval hands to UpdateAuthRequest
updater(a, identity, connectorID) ==
    [a EXCEPT !.Identity = Ptr(identity), !.ConnectorID = connectorID]

\* redirectToApproval: UpdateAuthRequest(state, updater), then the redirect
RedirectToApproval(i) ==
    LET r == reqs[i]
        found == Has(authRequests, r.loc.state)
    IN
    /\ r.pc = "UpdateAuthRequest"
    /\ authRequests' =
           IF found
           THEN Put(authRequests, r.loc.state,
                    updater(authRequests[r.loc.state], r.loc.identity, r.loc.connectorID))
           ELSE authRequests
    /\ UNCHANGED <<clients, authCodes, refreshTokens>>
    /\ Finish(i, r.handler, r.loc,
              IF found THEN PageResponse(StatusSeeOther, Nil, r.loc.state) ELSE ServerError)
    /\ UNCHANGED <<now, nextNonce, staticVars, logins, historyVars>>

-----------------------------------------------------------------------------
(* GET|POST /approval: handleApproval and sendCodeResponse *)

ApprovalForms ==
    [method : {"GET"}, state : 0..MaxNonce, approval : {""}]
    \cup [method : {"POST"}, state : 0..MaxNonce, approval : {"approve", "reject"}]

\* handleApproval without its test of authReq.Identity
handleApprovalCheckNoIdentity(authReq) ==
    IF authReq = Nil THEN Ptr(ServerError) ELSE Nil

\* what handleApproval answers before it looks at the method: a pointer to the
\* error response, or Nil to go on
handleApprovalCheck(authReq) ==
    IF authReq = Nil THEN Ptr(ServerError)
    ELSE IF Deref(authReq).Identity = Nil THEN Ptr(ServerError)
    ELSE Nil

\* what is kept of an /approval request: what GetAuthRequest returned (found),
\* whether sendCodeResponse was called (sent) and the clock it read, and the
\* result of its DeleteAuthRequest ("" before it)
ApprovalFacts(found, sent, t, deleted) ==
    [found |-> found, sent |-> sent, t |-> t, deleted |-> deleted]

\* the test sendCodeResponse rejects an AuthRequest on: authReq.Expiry.After(s.now())
sendCodeResponseExpired(authReq, t) == authReq.Expiry > t

\* a sendCodeResponse that creates the code beside the AuthRequest
sendCodeResponseKeepingRequest(i, authReq) ==
    IF sendCodeResponseExpired(authReq, now)
    THEN Finish(i, "approval", ApprovalFacts(Ptr(authReq), TRUE, now, ""),
                ErrorResponse(StatusBadRequest, errInvalidRequest,
                              "Authorization request period has expired."))
    ELSE Continue(i, "CreateAuthCode", "approval", [authReq |-> authReq, t |-> now])

\* sendCodeResponse up to its first storage call
sendCodeResponse(i, authReq) ==
    IF sendCodeResponseExpired(authReq, now)
    THEN Finish(i, "approval", ApprovalFacts(Ptr(authReq), TRUE, now, ""),
                ErrorResponse(StatusBadRequest, errInvalidRequest,
                              "Authorization request period has expired."))
    ELSE Continue(i, "DeleteAuthRequest", "approval", [authReq |-> authReq, t |-> now])

\* a POST /approval that takes every form value for an approval
approvalRejectedNever(form) == FALSE

\* the test of the POST branch: r.FormValue("approval") != "approve"
approvalRejected(form) == form.approval # "approve"

HandleApproval(i, form) ==
    LET authReq == Get(authRequests, form.state)
        failed == handleApprovalCheck(authReq)
        facts == ApprovalFacts(authReq, FALSE, now, "")
    IN
    /\ Free(i)
    /\ UNCHANGED storageVars
    /\ IF failed # Nil
       THEN Finish(i, "approval", facts, Deref(failed))
       ELSE IF form.method = "GET"
       THEN IF skipApproval
            THEN sendCodeResponse(i, Deref(authReq))
            ELSE Finish(i, "approval", facts,
                        IF Get(clients, Deref(authReq).ClientID) = Nil
                        THEN ServerError
                        ELSE PageResponse(StatusOK, Nil, Deref(authReq).ID))
       ELSE IF approvalRejected(form)
       THEN Finish(i, "approval", facts,
                   ErrorResponse(StatusInternalServerError, "approval rejected", ""))
       ELSE sendCodeResponse(i, Deref(authReq))
    /\ UNCHANGED <<now, nextNonce, staticVars, logins, historyVars>>

\* sendCodeResponse going on whatever DeleteAuthRequest returned
sendCodeResponseOnDeleteLenient(found) == Nil

\* what sendCodeResponse answers to DeleteAuthRequest's result: a pointer to the
\* error response, or Nil to go on (found: the row was there and is deleted)
sendCodeResponseOnDelete(found) ==
    IF ~found
    THEN Ptr(ErrorResponse(StatusBadRequest, errInvalidRequest,
                           "Authorization request has already been completed."))
    ELSE Nil

\* sendCodeResponse: DeleteAuthRequest(authReq.ID)
SendCodeDelete(i) ==
    LET r == reqs[i]
        found == Has(authRequests, r.loc.authReq.ID)
        failed == sendCodeResponseOnDelete(found)
    IN
    /\ r.pc = "DeleteAuthRequest"
    /\ authRequests' = Remove(authRequests, r.loc.authReq.ID)
    /\ UNCHANGED <<clients, authCodes, refreshTokens>>
    /\ IF failed # Nil
       THEN Finish(i, r.handler, ApprovalFacts(Ptr(r.loc.authReq), TRUE, r.loc.t, "notfound"),
                   Deref(failed))
       ELSE Continue(i, "CreateAuthCode", r.handler, r.loc)
    /\ UNCHANGED <<now, nextNonce, staticVars, logins, historyVars>>

\* an AuthCode that leaves the nonce of the request behind
AuthCodeWithoutNonce(id, authReq, t) ==
    [ID |-> id, ClientID |-> authReq.ClientID, ConnectorID |-> authReq.ConnectorID,
     Nonce |-> "", Scopes |-> authReq.Scopes,
     Identity |-> Deref(authReq.Identity), Expiry |-> t + CodeLifetime,
     RedirectURI |-> authReq.RedirectURI]

\* storage.AuthCode as sendCodeResponse builds it
AuthCode(id, authReq, t) ==
    [ID |-> id, ClientID |-> authReq.ClientID, ConnectorID |-> authReq.ConnectorID,
     Nonce |-> authReq.Nonce, Scopes |-> authReq.Scopes,
     Identity |-> Deref(authReq.Identity), Expiry |-> t + CodeLifetime,
     RedirectURI |-> authReq.RedirectURI]

\* a URL whose RawQuery is the key=value pairs, in their order
WithRawQuery(u, pairs) ==
    [scheme |-> u.scheme, host |-> u.host, port |-> u.port, path |-> u.path,
     query |-> pairs]

RawQuery(u) == IF "query" \in DOMAIN u THEN u.query ELSE <<>>

\* u.Query(): url.Values, each key with its values in the order of RawQuery
Query(u) ==
    LET raw == RawQuery(u) IN
    [key \in {raw[j][1] : j \in DOMAIN raw} |->
        LET pairs == SelectSeq(raw, LAMBDA pair : pair[1] = key)
        IN  [j \in 1..Len(pairs) |-> pairs[j][2]]]

\* url.Values.Add: the value joins those of the key
SetAdding(q, key, value) ==
    [k \in DOMAIN q \cup {key} |->
        IF k # key THEN q[k]
        ELSE IF key \in DOMAIN q THEN Append(q[key], value) ELSE <<value>>]

\* url.Values.Set: the value replaces those of the key
Set(q, key, value) ==
    [k \in DOMAIN q \cup {key} |-> IF k = key THEN <<value>> ELSE q[k]]

\* sort.Strings over the keys the model's queries hold
KeyOrder == <<"a", "b", "code", "state", "tenant">>

\* url.Values.Encode: the pairs sorted by key
RECURSIVE encodeFrom(_, _)
encodeFrom(q, sortedKeys) ==
    IF sortedKeys = <<>> THEN <<>>
    ELSE LET key == Head(sortedKeys) IN
         [j \in 1..Len(q[key]) |-> <<key, q[key][j]>>] \o encodeFrom(q, Tail(sortedKeys))

Encode(q) == encodeFrom(q, SelectSeq(KeyOrder, LAMBDA key : key \in DOMAIN q))

\* the answer of sendCodeResponse once the code is stored
sendCodeResponsePage(authReq, code) ==
    IF authReq.RedirectURI = oobRedirectURI
    THEN PageResponse(StatusOK, Nil, code.ID)
    ELSE LET u == authReq.RedirectURI
             q == Set(Set(Query(u), "code", code.ID), "state", authReq.State)
         IN  PageResponse(StatusSeeOther, Ptr(WithRawQuery(u, Encode(q))), code.ID)

\* sendCodeResponse: CreateAuthCode(code) and the answer
SendCodeCreate(i, created) ==
    LET r == reqs[i]
        authReq == r.loc.authReq
        code == AuthCode(NewNonce, authReq, now)
        facts == ApprovalFacts(Ptr(authReq), TRUE, r.loc.t, "found")
    IN
    /\ r.pc = "CreateAuthCode"
    /\ nextNonce <= MaxNonce
    /\ nextNonce' = nextNonce + 1
    /\ authCodes' = IF created THEN Put(authCodes, code.ID, code) ELSE authCodes
    /\ UNCHANGED <<clients, authRequests, refreshTokens>>
    /\ codesIssued' = IF created THEN [codesIssued EXCEPT ![authReq.ID] = @ + 1]
                                 ELSE codesIssued
    /\ Finish(i, r.handler, facts,
              IF created THEN sendCodeResponsePage(authReq, code) ELSE ServerError)
    /\ UNCHANGED <<now, staticVars, logins, tokensIssued, redirectMismatch>>

-----------------------------------------------------------------------------
(* POST /token: handleToken, handleAuthCode, handleRefreshToken *)

\* the scope parameter of a refresh request: <<>> is the empty string
RefreshScopeInputs ==
    { <<>>, <<scopeOpenID, scopeEmail>>, <<scopeOpenID, scopeProfile>> }

\* the credentials a request carries: those of c1 and of c2, a wrong secret
\* for each, and a client the server does not know
Credentials ==
    { <<"c1", "s1">>, <<"c2", "s2">> }

BadCredentials ==
    { <<"c1", "s2">>, <<"c2", "s1">>, <<"cx", "s1">> }

\* refresh_token is Nil for the empty string, else a pointer to the id presented
TokenForm(cred, grantType, code, redirectURI, refreshToken, scope) ==
    [client_id |-> cred[1], client_secret |-> cred[2], grant_type |-> grantType,
     code |-> code, redirect_uri |-> redirectURI, refresh_token |-> refreshToken,
     scope |-> scope]

TokenForms ==
    { TokenForm(cred, "authorization_code", code, uri, Nil, <<>>) :
          cred \in Credentials, code \in 0..MaxNonce, uri \in {appCallback, evilCallback} }
    \cup
    { TokenForm(cred, "refresh_token", 0, appCallback, tok, scope) :
          cred \in Credentials, tok \in {Nil} \cup {Ptr(id) : id \in 0..MaxNonce},
          scope \in RefreshScopeInputs }
    \cup
    { TokenForm(cred, "password", 0, appCallback, Nil, <<>>) : cred \in Credentials }
    \cup
    { TokenForm(cred, "authorization_code", code, appCallback, Nil, <<>>) :
          cred \in BadCredentials, code \in 0..MaxNonce }
    \cup
    { TokenForm(cred, "refresh_token", 0, appCallback, Ptr(id), <<>>) :
          cred \in BadCredentials, id \in 0..MaxNonce }

invalidClientDescription == "Invalid client credentials."

\* a client authentication that tells an unknown client from a wrong secret, as
\* handleTokenRequest in oauth2.go does
handleTokenClientTelling(s, clientID, clientSecret) ==
    LET client == Get(s, clientID) IN
    IF client = Nil
    THEN Ptr(ErrorResponse(StatusUnauthorized, errInvalidClient, "Unknown client_id"))
    ELSE IF Deref(client).Secret # clientSecret
    THEN Ptr(ErrorResponse(StatusUnauthorized, errInvalidClient, "Wrong client_secret"))
    ELSE Nil

\* handleToken's client authentication: a pointer to the error response, or Nil
\* when the client exists and the secret matches
handleTokenClient(s, clientID, clientSecret) ==
    LET client == Get(s, clientID) IN
    IF client = Nil
    THEN Ptr(ErrorResponse(StatusUnauthorized, errInvalidClient, invalidClientDescription))
    ELSE IF Deref(client).Secret # clientSecret
    THEN Ptr(ErrorResponse(StatusUnauthorized, errInvalidClient, invalidClientDescription))
    ELSE Nil

redirectMismatchDescription == "redirect_uri did not match URI from initial request."

\* a handleAuthCode that redeems a code for whichever client presents it
handleAuthCodeCheckAnyClient(authCode, t, clientID, redirectURI) ==
    IF authCode = Nil
    THEN Ptr(ErrorResponse(StatusBadRequest, errInvalidRequest,
                           "Invalid or expired code parameter."))
    ELSE IF t > Deref(authCode).Expiry
    THEN Ptr(ServerError)
    ELSE IF Deref(authCode).RedirectURI # redirectURI
    THEN Ptr(ErrorResponse(StatusBadRequest, errInvalidRequest, redirectMismatchDescription))
    ELSE Nil

\* handleAuthCode's checks of what GetAuthCode returned (authCode: a pointer to
\* the row, Nil for ErrNotFound): a pointer to the error response, or Nil
handleAuthCodeCheck(authCode, t, clientID, redirectURI) ==
    IF authCode = Nil
    THEN Ptr(ErrorResponse(StatusBadRequest, errInvalidRequest,
                           "Invalid or expired code parameter."))
    ELSE IF t > Deref(authCode).Expiry \/ Deref(authCode).ClientID # clientID
    THEN Ptr(ServerError)
    ELSE IF Deref(authCode).RedirectURI # redirectURI
    THEN Ptr(ErrorResponse(StatusBadRequest, errInvalidRequest, redirectMismatchDescription))
    ELSE Nil

\* a grant handler going on when its Delete found nothing to delete
handleTokenOnDeleteLenient(found) == Nil

\* what handleAuthCode and handleRefreshToken answer to the result of their
\* Delete: any error, ErrNotFound too, is a server error
handleTokenOnDelete(found) == IF ~found THEN Ptr(ServerError) ELSE Nil

\* a reqRefresh that asks for a refresh token whatever the scopes
reqRefreshAlways(scopes) == TRUE

\* reqRefresh in handleAuthCode
reqRefresh(scopes) == scopeOfflineAccess \in Range(scopes)

\* storage.Refresh as handleAuthCode builds it
Refresh(id, authCode) ==
    [RefreshToken |-> id, ClientID |-> authCode.ClientID,
     ConnectorID |-> authCode.ConnectorID, Scopes |-> authCode.Scopes,
     Identity |-> authCode.Identity, Nonce |-> authCode.Nonce, Expiry |-> ZeroTime]

\* handleRefreshToken's checks of what GetRefresh returned
handleRefreshTokenCheck(refresh, clientID) ==
    IF refresh = Nil
    THEN Ptr(ErrorResponse(StatusBadRequest, errInvalidRequest,
             "Refresh token is invalid or has already been claimed by another client."))
    ELSE IF Deref(refresh).ClientID # clientID
    THEN Ptr(ServerError)
    ELSE Nil

\* a contains that lets every requested scope through
containsAny(requestedScopes, refreshScopes) == TRUE

\* contains in handleRefreshToken: every requested scope is one of the Refresh's
contains(requestedScopes, refreshScopes) ==
    \A k \in DOMAIN requestedScopes :
        \E j \in DOMAIN refreshScopes : requestedScopes[k] = refreshScopes[j]

\* the scopes handleRefreshToken builds the ID token over
refreshGrantScopes(refresh, scope) == IF scope # <<>> THEN scope ELSE refresh.Scopes

\* whether the token presented was already redeemed when the request arrived
AlreadyRedeemed(id) == id \in Ids /\ tokensIssued[id] > 0

\* what is kept of a /token request: its parameters, the grant handler that ran
\* ("" when none did), what its Get returned (found), the clock, the scopes of
\* the ID token, the result of its Delete ("" before it) and what was known of
\* the token presented when the request arrived; clients is the client rows the
\* request read
GrantFacts(form, ran, presented, found, scopes) ==
    [grant_type |-> form.grant_type, client_id |-> form.client_id,
     client_secret |-> form.client_secret, ran |-> ran,
     presented |-> presented, redirect_uri |-> form.redirect_uri, scope |-> form.scope,
     found |-> found, t |-> now, clients |-> clients, scopes |-> scopes,
     deleted |-> "",
     late |-> AlreadyRedeemed(presented),
     afterMismatch |-> presented \in redirectMismatch]

\* handleAuthCode up to DeleteAuthCode
handleAuthCode(i, form) ==
    LET authCode == Get(authCodes, form.code)
        failed == handleAuthCodeCheck(authCode, now, form.client_id, form.redirect_uri)
        facts == GrantFacts(form, "handleAuthCode", form.code, authCode,
                            IF authCode = Nil THEN <<>> ELSE Deref(authCode).Scopes)
        idToken == signIDToken(keys,
                       newIDToken(clients, form.client_id, Deref(authCode).Identity,
                                  Deref(authCode).Scopes, Deref(authCode).Nonce))
    IN  IF failed # Nil
        THEN /\ Finish(i, "token", facts, Deref(failed))
             /\ redirectMismatch' =
                    IF Deref(failed).desc = redirectMismatchDescription
                    THEN redirectMismatch \cup {form.code} ELSE redirectMismatch
        ELSE /\ redirectMismatch' = redirectMismatch
             /\ IF idToken = Nil THEN Finish(i, "token", facts, ServerError)
                ELSE Continue(i, "DeleteAuthCode", "token",
                              [code |-> form.code, authCode |-> Deref(authCode),
                               idToken |-> Deref(idToken), facts |-> facts])

\* handleRefreshToken up to DeleteRefresh
handleRefreshToken(i, form) ==
    LET code == Deref(form.refresh_token)
        refresh == Get(refreshTokens, code)
        failed == handleRefreshTokenCheck(refresh, form.client_id)
        scopes == refreshGrantScopes(Deref(refresh), form.scope)
        facts == GrantFacts(form, "handleRefreshToken", code, refresh,
                            IF refresh = Nil THEN <<>> ELSE scopes)
        idToken == signIDToken(keys,
                       newIDToken(clients, form.client_id, Deref(refresh).Identity,
                                  scopes, Deref(refresh).Nonce))
    IN  IF form.refresh_token = Nil
        THEN Finish(i, "token", GrantFacts(form, "handleRefreshToken", 0, Nil, <<>>),
                    ErrorResponse(StatusBadRequest, errInvalidRequest,
                                  "No refresh token in request."))
        ELSE IF failed # Nil THEN Finish(i, "token", facts, Deref(failed))
        ELSE IF form.scope # <<>> /\ ~contains(form.scope, Deref(refresh).Scopes)
        THEN Finish(i, "token", facts,
                    ErrorResponse(StatusBadRequest, errInvalidRequest,
                                  "Requested scopes did not contain authorized scopes."))
        ELSE IF idToken = Nil THEN Finish(i, "token", facts, ServerError)
        ELSE Continue(i, "DeleteRefresh", "token",
                      [code |-> code, refresh |-> Deref(refresh), scopes |-> scopes,
                       idToken |-> Deref(idToken), facts |-> facts])

\* handleToken: the client's authentication and the dispatch on grant_type, up to
\* the grant handler's Delete.  GetClient, the grant's Get and the reads of
\* newIDToken are one step: they read different rows (newIDToken reads no row
\* for the client's own id), so a write to one of them between two of the reads
\* gives what the same write before or after the step gives.
HandleToken(i, form) ==
    LET failed == handleTokenClient(clients, form.client_id, form.client_secret) IN
    /\ Free(i)
    /\ UNCHANGED storageVars
    /\ IF failed # Nil
       THEN /\ Finish(i, "token", GrantFacts(form, "", 0, Nil, <<>>), Deref(failed))
            /\ redirectMismatch' = redirectMismatch
       ELSE IF form.grant_type = "authorization_code" THEN handleAuthCode(i, form)
       ELSE /\ redirectMismatch' = redirectMismatch
            /\ IF form.grant_type = "refresh_token" THEN handleRefreshToken(i, form)
               ELSE Finish(i, "token", GrantFacts(form, "", 0, Nil, <<>>),
                           ErrorResponse(StatusBadRequest, errInvalidGrant, ""))
    /\ UNCHANGED <<now, nextNonce, staticVars, logins, codesIssued, tokensIssued>>

\* handleAuthCode: DeleteAuthCode(code); without offline_access the answer follows
AuthCodeDelete(i) ==
    LET r == reqs[i]
        found == Has(authCodes, r.loc.code)
        failed == handleTokenOnDelete(found)
    IN
    /\ r.pc = "DeleteAuthCode"
    /\ authCodes' = Remove(authCodes, r.loc.code)
    /\ UNCHANGED <<clients, authRequests, refreshTokens>>
    /\ IF failed # Nil
       THEN /\ Finish(i, r.handler, [r.loc.facts EXCEPT !.deleted = "notfound"],
                      Deref(failed))
            /\ tokensIssued' = tokensIssued
       ELSE IF reqRefresh(r.loc.authCode.Scopes)
       THEN /\ Continue(i, "CreateRefresh", r.handler, r.loc)
            /\ tokensIssued' = tokensIssued
       ELSE /\ Finish(i, r.handler, [r.loc.facts EXCEPT !.deleted = "found"],
                      TokenResponse(r.loc.idToken, 0, idTokenExpiry(r.loc.facts.t), now))
            /\ tokensIssued' = [tokensIssued EXCEPT ![r.loc.code] = @ + 1]
    /\ UNCHANGED <<now, nextNonce, staticVars, logins, codesIssued, redirectMismatch>>

\* handleAuthCode: CreateRefresh(refresh) and the answer
AuthCodeCreateRefresh(i, created) ==
    LET r == reqs[i]
        refresh == Refresh(NewNonce, r.loc.authCode)
    IN
    /\ r.pc = "CreateRefresh"
    /\ nextNonce <= MaxNonce
    /\ nextNonce' = nextNonce + 1
    /\ refreshTokens' = IF created THEN Put(refreshTokens, refresh.RefreshToken, refresh)
                                   ELSE refreshTokens
    /\ UNCHANGED <<clients, authRequests, authCodes>>
    /\ tokensIssued' = IF created THEN [tokensIssued EXCEPT ![r.loc.code] = @ + 1]
                                  ELSE tokensIssued
    /\ Finish(i, r.handler, [r.loc.facts EXCEPT !.deleted = "found"],
              IF created THEN TokenResponse(r.loc.idToken, refresh.RefreshToken,
                                            idTokenExpiry(r.loc.facts.t), now)
                         ELSE ServerError)
    /\ UNCHANGED <<now, staticVars, logins, codesIssued, redirectMismatch>>

\* handleRefreshToken: DeleteRefresh(code)
RefreshDelete(i) ==
    LET r == reqs[i]
        found == Has(refreshTokens, r.loc.code)
        failed == handleTokenOnDelete(found)
    IN
    /\ r.pc = "DeleteRefresh"
    /\ refreshTokens' = Remove(refreshTokens, r.loc.code)
    /\ UNCHANGED <<clients, authRequests, authCodes>>
    /\ IF failed # Nil
       THEN Finish(i, r.handler, [r.loc.facts EXCEPT !.deleted = "notfound"], Deref(failed))
       ELSE Continue(i, "CreateRefreshAgain", r.handler, r.loc)
    /\ UNCHANGED <<now, nextNonce, staticVars, logins, historyVars>>

\* a rotation that stores the Refresh again under the token it was presented
rotatedRefreshSameToken(refresh, id) == refresh

\* a rotation that keeps the openid scope alone in the Refresh it stores
rotatedRefreshNarrowed(refresh, id) ==
    [refresh EXCEPT !.RefreshToken = id, !.Scopes = <<scopeOpenID>>]

\* the Refresh handleRefreshToken stores in place of the one it deleted
rotatedRefresh(refresh, id) == [refresh EXCEPT !.RefreshToken = id]

\* handleRefreshToken: CreateRefresh(refresh) under a new token, and the answer
RefreshCreate(i, created) ==
    LET r == reqs[i]
        refresh == rotatedRefresh(r.loc.refresh, NewNonce)
    IN
    /\ r.pc = "CreateRefreshAgain"
    /\ nextNonce <= MaxNonce
    /\ nextNonce' = nextNonce + 1
    /\ refreshTokens' = IF created THEN Put(refreshTokens, refresh.RefreshToken, refresh)
                                   ELSE refreshTokens
    /\ UNCHANGED <<clients, authRequests, authCodes>>
    /\ tokensIssued' = IF created THEN [tokensIssued EXCEPT ![r.loc.code] = @ + 1]
                                  ELSE tokensIssued
    /\ Finish(i, r.handler, [r.loc.facts EXCEPT !.deleted = "found"],
              IF created THEN TokenResponse(r.loc.idToken, refresh.RefreshToken,
                                            idTokenExpiry(r.loc.facts.t), now)
                         ELSE ServerError)
    /\ UNCHANGED <<now, staticVars, logins, codesIssued, redirectMismatch>>

-----------------------------------------------------------------------------
(* The client rows, as whoever administers the storage changes them. *)

\* the trustedPeers an update leaves in a client
TrustedPeersInputs == { <<>>, <<"c1">> }

\* the requests a step leaves untouched, none of them the latest completed
NoRequestStep == reqs' = reqs /\ last' = NoRequest

\* storage.DeleteClient(id)
DeleteClient(id) ==
    /\ Has(clients, id)
    /\ clients' = Remove(clients, id)
    /\ NoRequestStep
    /\ UNCHANGED <<authRequests, authCodes, refreshTokens, now, nextNonce,
                   staticVars, logins, historyVars>>

\* storage.UpdateClient(id, updater) with an updater that sets TrustedPeers
UpdateClient(id, trustedPeers) ==
    /\ Has(clients, id)
    /\ clients[id].TrustedPeers # trustedPeers
    /\ clients' = Put(clients, id, [clients[id] EXCEPT !.TrustedPeers = trustedPeers])
    /\ NoRequestStep
    /\ UNCHANGED <<authRequests, authCodes, refreshTokens, now, nextNonce,
                   staticVars, logins, historyVars>>

-----------------------------------------------------------------------------
(* The key manager: rotation of the Keys record, and a caller of Keys.Encrypt
   and Keys.Decrypt. *)

\* the time between two rotations, and the time a rotated key stays valid
RotationPeriod == 6
ValidityWindow == 6

\* the rotated keys a rotation at time t keeps: those whose expiry has not passed
unexpired(rotatedKeys, t) == SelectSeq(rotatedKeys, LAMBDA key: ~(key.Expiry < t))

\* the number of the key that follows key (a pointer), the first one after Nil
nextKey(key) == IF key = Nil THEN 1 ELSE Deref(key) + 1

\* the Keys record a rotation at time t makes of k: new keys, the outgoing ones
\* pushed among the rotated keys and the expired ones of these removed
rotated(k, t) ==
    Keys(Ptr(nextKey(k.SigningKey)), Ptr(nextKey(k.SigningKey)),
         unexpired(k.VerificationKeys, t) \o
             (IF k.SigningKeyPub = Nil THEN <<>>
              ELSE <<VerificationKey(Deref(k.SigningKeyPub), t + ValidityWindow)>>),
         Ptr(nextKey(k.EncryptionKey)),
         unexpired(k.DecryptionKeys, t) \o
             (IF k.EncryptionKey = Nil THEN <<>>
              ELSE <<DecryptionKey(Deref(k.EncryptionKey), t + ValidityWindow)>>),
         t + RotationPeriod)

\* Rotate: storage.UpdateKeys on or after NextRotation
Rotate ==
    /\ now >= keys.NextRotation
    /\ keys' = rotated(keys, now)
    /\ NoRequestStep
    /\ UNCHANGED <<storageVars, now, nextNonce, skipApproval, nonces, logins, historyVars>>

\* a key set that holds the current key alone
jwksCurrentOnly(k) == <<Deref(k.SigningKeyPub)>>

\* jose.JSONWebKeySet of handlePublicKeys: SigningKeyPub, then the public key
\* of every entry of VerificationKeys
jwks(k) ==
    <<Deref(k.SigningKeyPub)>> \o
        [j \in 1..Len(k.VerificationKeys) |-> k.VerificationKeys[j].PublicKey]

\* time.Minute * 2, the least max-age, in minutes
MinMaxAge == 2

\* the answer of /keys: the key set and the Cache-Control header
KeysResponse(keySet, maxAge) ==
    [status |-> StatusOK, err |-> "", desc |-> "", location |-> Nil, code |-> 0,
     token |-> Nil, jwks |-> keySet,
     cacheControl |-> Sprintf("max-age=%d, must-revalidate", <<Nanoseconds(maxAge)>>)]

\* GET /keys: handlePublicKeys
HandlePublicKeys(i) ==
    LET maxAge == keys.NextRotation - now
        facts == [keys |-> keys, t |-> now]
    IN
    /\ Free(i)
    /\ UNCHANGED storageVars
    /\ IF keys.SigningKeyPub = Nil
       THEN Finish(i, "keys", facts,
                   ErrorResponse(StatusInternalServerError, "", "Internal server error"))
       ELSE Finish(i, "keys", facts,
                   KeysResponse(jwks(keys), IF maxAge < MinMaxAge THEN MinMaxAge ELSE maxAge))
    /\ UNCHANGED <<now, nextNonce, staticVars, logins, historyVars>>

\* the values a caller encrypts
SecretInputs == {"a", "b"}

\* the texts a caller holds from before: sealed under each generation of key,
\* sealed text that is no JSON, and text that is no base64
MaxKey == 3
CipherTextInputs ==
    { Base64(Sealed(JSONText("a"), key)) : key \in 1..MaxKey }
    \cup { Base64(Sealed(NotJSON, 1)), NotBase64 }

\* what is kept of a call of Keys.Decrypt: the value encrypted (Nil for a text
\* held from before), the text, the Keys record and the clock
SecretFacts(v, cipherText) == [v |-> v, cipherText |-> cipherText, keys |-> keys, t |-> now]

\* a caller encrypts v with the Keys record as it is, and keeps the text
SecretEncrypt(i, v) ==
    /\ Free(i)
    /\ keys.EncryptionKey # Nil
    /\ UNCHANGED storageVars
    /\ Continue(i, "Decrypt", "secret", [v |-> Ptr(v), cipherText |-> Encrypt(keys, v)])
    /\ UNCHANGED <<now, nextNonce, staticVars, logins, historyVars>>

\* the caller decrypts the text it kept, with the Keys record as it is now
SecretDecrypt(i) ==
    LET r == reqs[i] IN
    /\ r.pc = "Decrypt"
    /\ UNCHANGED storageVars
    /\ Finish(i, r.handler, SecretFacts(r.loc.v, r.loc.cipherText),
              Decrypt(keys, r.loc.cipherText, now))
    /\ UNCHANGED <<now, nextNonce, staticVars, logins, historyVars>>

\* a caller decrypts a text held from before
DecryptHeld(i, cipherText) ==
    /\ Free(i)
    /\ UNCHANGED storageVars
    /\ Finish(i, "secret", SecretFacts(Nil, cipherText), Decrypt(keys, cipherText, now))
    /\ UNCHANGED <<now, nextNonce, staticVars, logins, historyVars>>

-----------------------------------------------------------------------------
(* The clock and the storage's garbage collection. *)

\* the clock advances by the lifetime of a code, or by a minute more
TickSteps == {CodeLifetime, CodeLifetime + 1}

Tick(d) ==
    /\ now + d <= MaxTime
    /\ now' = now + d
    /\ last' = NoRequest
    /\ UNCHANGED <<storageVars, nextNonce, staticVars, logins, reqs, historyVars>>

\* the storage reaps an AuthCode whose expiry has passed
GarbageCollect(id) ==
    /\ Has(authCodes, id)
    /\ now > authCodes[id].Expiry
    /\ authCodes' = Remove(authCodes, id)
    /\ last' = NoRequest
    /\ UNCHANGED <<clients, authRequests, refreshTokens, now, nextNonce, staticVars, logins,
                   reqs, historyVars>>

-----------------------------------------------------------------------------

\* the AuthRequest ids a browser can hold: a bogus one, those in storage and
\* those a code was issued for
States == {0} \cup DOMAIN authRequests \cup {a \in Ids : codesIssued[a] > 0}

\* the identifiers a caller can present: those NewNonce has returned, and 0
Presentable == 0..(nextNonce - 1)

Next ==
    \/ \E i \in Slots, form \in AuthForms, created \in BOOLEAN :
           HandleAuthorization(i, form, created)
    \/ \E i \in Slots, form \in ConnectorForms, login \in {"error", "invalid", "ok"} :
           form.state \in States /\ HandleConnectorLogin(i, form, login)
    \/ \E i \in Slots, form \in ConnectorForms, login \in {"error", "ok"} :
           form.state \in States /\ HandleConnectorCallback(i, form, login)
    \/ \E i \in Slots : RedirectToApproval(i)
    \/ \E i \in Slots, form \in ApprovalForms :
           form.state \in States /\ HandleApproval(i, form)
    \/ \E i \in Slots : SendCodeDelete(i)
    \/ \E i \in Slots, created \in BOOLEAN : SendCodeCreate(i, created)
    \/ \E i \in Slots, form \in TokenForms :
           /\ form.code \in Presentable
           /\ form.refresh_token # Nil => Deref(form.refresh_token) \in Presentable
           /\ HandleToken(i, form)
    \/ \E i \in Slots : AuthCodeDelete(i)
    \/ \E i \in Slots, created \in BOOLEAN : AuthCodeCreateRefresh(i, created)
    \/ \E i \in Slots : RefreshDelete(i)
    \/ \E i \in Slots, created \in BOOLEAN : RefreshCreate(i, created)
    \/ \E d \in TickSteps : Tick(d)
    \/ \E id \in Ids : GarbageCollect(id)

\* the whole server
Spec == Init /\ [][Next]_vars

\* The authorization flow alone, /auth to the issue of a code, with no token
\* request in flight.
NextAuth ==
    \/ \E i \in Slots, form \in AuthForms, created \in BOOLEAN :
           HandleAuthorization(i, form, created)
    \/ \E i \in Slots, form \in ConnectorForms, login \in {"error", "invalid", "ok"} :
           form.state \in States /\ HandleConnectorLogin(i, form, login)
    \/ \E i \in Slots, form \in ConnectorForms, login \in {"error", "ok"} :
           form.state \in States /\ HandleConnectorCallback(i, form, login)
    \/ \E i \in Slots : RedirectToApproval(i)
    \/ \E i \in Slots, form \in ApprovalForms :
           form.state \in States /\ HandleApproval(i, form)
    \/ \E i \in Slots : SendCodeDelete(i)
    \/ \E i \in Slots, created \in BOOLEAN : SendCodeCreate(i, created)

SpecAuth == Init /\ [][NextAuth]_vars

\* The token endpoint, with the authorization flow reduced to the requests that
\* end in a code: valid /auth parameters, the mock connector's callback and an
\* approval, each for an AuthRequest in storage.  The clock is followed while a
\* code is in storage.
NextToken ==
    \/ \E i \in Slots, form \in GoodAuthForms :
           /\ form.scope \in {AuthForm.scope, <<scopeOpenID>>}
           /\ HandleAuthorization(i, form, TRUE)
    \/ \E i \in Slots, form \in ConnectorForms :
           /\ form.connector = "mock" /\ form.state \in DOMAIN authRequests
           /\ HandleConnectorCallback(i, form, "ok")
    \/ \E i \in Slots : RedirectToApproval(i)
    \/ \E i \in Slots, form \in ApprovalForms :
           /\ form.state \in DOMAIN authRequests
           /\ form.approval = "approve"
           /\ HandleApproval(i, form)
    \/ \E i \in Slots : SendCodeDelete(i)
    \/ \E i \in Slots : SendCodeCreate(i, TRUE)
    \/ \E i \in Slots, form \in TokenForms :
           /\ form.code \in Presentable
           /\ form.refresh_token # Nil => Deref(form.refresh_token) \in Presentable
           /\ HandleToken(i, form)
    \/ \E i \in Slots : AuthCodeDelete(i)
    \/ \E i \in Slots, created \in BOOLEAN : AuthCodeCreateRefresh(i, created)
    \/ \E i \in Slots : RefreshDelete(i)
    \/ \E i \in Slots, created \in BOOLEAN : RefreshCreate(i, created)
    \/ \E d \in TickSteps : authCodes # NoRows /\ Tick(d)
    \/ \E id \in Ids : GarbageCollect(id)

\* the server is configured to ask for the user's approval
InitToken == Init /\ ~skipApproval

SpecToken == InitToken /\ [][NextToken]_vars

\* a client that asks for an ID token for its peer c2 and for a refresh token
TrustAuthForm ==
    [AuthForm EXCEPT !.scope = <<scopeOpenID, scopeOfflineAccess,
                                 <<scopeCrossClientPrefix, "c2">> >>]

\* requests for no peer, for one and for two (c1 itself being the second)
TrustAuthForms ==
    { TrustAuthForm,
      [AuthForm EXCEPT !.scope = <<scopeOpenID>>],
      [AuthForm EXCEPT !.scope = <<scopeOpenID, <<scopeCrossClientPrefix, "c2">>,
                                   <<scopeCrossClientPrefix, "c1">> >>] }

\* one login, with or without cross-client scopes, its code and refresh grants,
\* and the peer's row changing at any moment
NextTrust ==
    \/ \E i \in Slots, form \in TrustAuthForms : HandleAuthorization(i, form, TRUE)
    \/ \E i \in Slots, form \in ConnectorForms :
           /\ form.connector = "mock" /\ form.state \in DOMAIN authRequests
           /\ HandleConnectorCallback(i, form, "ok")
    \/ \E i \in Slots : RedirectToApproval(i)
    \/ \E i \in Slots, form \in ApprovalForms :
           /\ form.state \in DOMAIN authRequests
           /\ form.approval = "approve"
           /\ HandleApproval(i, form)
    \/ \E i \in Slots : SendCodeDelete(i)
    \/ \E i \in Slots : SendCodeCreate(i, TRUE)
    \/ \E i \in Slots, form \in TokenForms :
           /\ form.client_id = "c1" /\ form.client_secret = "s1"
           /\ form.redirect_uri = appCallback /\ form.scope = <<>>
           /\ \/ form.grant_type = "authorization_code" /\ Has(authCodes, form.code)
              \/ /\ form.grant_type = "refresh_token" /\ form.refresh_token # Nil
                 /\ Has(refreshTokens, Deref(form.refresh_token))
           /\ HandleToken(i, form)
    \/ \E i \in Slots : AuthCodeDelete(i)
    \/ \E i \in Slots : AuthCodeCreateRefresh(i, TRUE)
    \/ \E i \in Slots : RefreshDelete(i)
    \/ \E i \in Slots : RefreshCreate(i, TRUE)
    \/ DeleteClient("c2")
    \/ \E trustedPeers \in TrustedPeersInputs : UpdateClient("c2", trustedPeers)

SpecTrust == InitToken /\ [][NextTrust]_vars

\* the same, with the code presented by either client and the clock followed
\* while a code is in storage
NextRedeem ==
    \/ NextTrust
    \/ \E i \in Slots, form \in TokenForms :
           /\ form.client_id = "c2" /\ form.client_secret = "s2"
           /\ form.grant_type = "authorization_code" /\ Has(authCodes, form.code)
           /\ form.redirect_uri = appCallback
           /\ HandleToken(i, form)
    \/ \E d \in TickSteps : authCodes # NoRows /\ Tick(d)

SpecRedeem == InitToken /\ [][NextRedeem]_vars

\* requests for the scopes that bring claims into the ID token
ClaimsAuthForms ==
    { [AuthForm EXCEPT !.scope = <<scopeOpenID, scopeEmail, scopeProfile,
                                   scopeOfflineAccess>>],
      [AuthForm EXCEPT !.scope = <<scopeOpenID, scopeGroups, scopeProfile,
                                   scopeOfflineAccess>>] }

\* one login, its code grant and its refresh grants with and without a
\* narrower scope parameter
NextClaims ==
    \/ \E i \in Slots, form \in ClaimsAuthForms : HandleAuthorization(i, form, TRUE)
    \/ \E i \in Slots, form \in ConnectorForms :
           /\ form.connector = "mock" /\ form.state \in DOMAIN authRequests
           /\ HandleConnectorCallback(i, form, "ok")
    \/ \E i \in Slots : RedirectToApproval(i)
    \/ \E i \in Slots, form \in ApprovalForms :
           /\ form.state \in DOMAIN authRequests
           /\ form.approval = "approve"
           /\ HandleApproval(i, form)
    \/ \E i \in Slots : SendCodeDelete(i)
    \/ \E i \in Slots : SendCodeCreate(i, TRUE)
    \/ \E i \in Slots, form \in TokenForms :
           /\ form.client_id = "c1" /\ form.client_secret = "s1"
           /\ form.redirect_uri = appCallback
           /\ \/ form.grant_type = "authorization_code" /\ Has(authCodes, form.code)
              \/ /\ form.grant_type = "refresh_token" /\ form.refresh_token # Nil
                 /\ Has(refreshTokens, Deref(form.refresh_token))
           /\ HandleToken(i, form)
    \/ \E i \in Slots : AuthCodeDelete(i)
    \/ \E i \in Slots : AuthCodeCreateRefresh(i, TRUE)
    \/ \E i \in Slots : RefreshDelete(i)
    \/ \E i \in Slots : RefreshCreate(i, TRUE)

SpecClaims == InitToken /\ [][NextClaims]_vars

\* redirect URIs: the out-of-band value, localhost with a port over http and
\* over https, with a path, without a port, and hosts that are not localhost
localhostCallback == URI("http", "localhost", Ptr(8080), "")

RedirectURIInputs ==
    { oobRedirectURI, localhostCallback, appCallback, evilCallback,
      URI("http", "localhost", Ptr(1), ""),
      URI("http", "localhost", Ptr(65535), ""),
      URI("https", "localhost", Ptr(8080), ""),
      URI("http", "localhost", Ptr(8080), "/cb"),
      URI("http", "localhost", <<>>, ""),
      URI("http", "app", Ptr(8080), "") }

\* client c1 registered as a confidential or as a public client, with a
\* callback of its web application, with one on localhost, or with none
RedirectClients ==
    { Client("c1", "s1", uris, <<>>, public) :
          uris \in { <<appCallback>>, <<localhostCallback, appCallback>>, <<>> },
          public \in BOOLEAN }

InitRedirect ==
    /\ \E client \in RedirectClients : clients = Put(InitClients, "c1", client)
    /\ authRequests = NoRows
    /\ authCodes = NoRows
    /\ refreshTokens = NoRows
    /\ now = 1
    /\ nextNonce = 1
    /\ skipApproval \in BOOLEAN
    /\ reqs = [i \in Slots |-> Idle]
    /\ last = NoRequest
    /\ codesIssued = [id \in Ids |-> 0]
    /\ tokensIssued = [id \in Ids |-> 0]
    /\ redirectMismatch = {}
    /\ logins = 0
    /\ keys = InitKeys
    /\ nonces = NoRows

\* /auth for each redirect URI: validateRedirectURI within
\* parseAuthorizationRequest
NextRedirect ==
    \E i \in Slots, uri \in RedirectURIInputs, created \in BOOLEAN :
        HandleAuthorization(i, [AuthForm EXCEPT !.redirect_uri = uri], created)

SpecRedirect == InitRedirect /\ [][NextRedirect]_vars

\* Keys records: the initial one, one due for rotation, one with two rotated
\* keys that expire at different times, and the record of a new storage
KeysInputs ==
    { InitKeys,
      Keys(Ptr(1), Ptr(1), <<>>, Ptr(1), <<>>, 1),
      Keys(Ptr(3), Ptr(3), <<VerificationKey(1, 3), VerificationKey(2, MaxTime)>>,
           Ptr(3), <<DecryptionKey(1, 3), DecryptionKey(2, MaxTime)>>, 6),
      Keys(Nil, Nil, <<>>, Nil, <<>>, ZeroTime) }

InitKeysInputs ==
    /\ clients = InitClients
    /\ authRequests = NoRows
    /\ authCodes = NoRows
    /\ refreshTokens = NoRows
    /\ now = 1
    /\ nextNonce = 1
    /\ skipApproval = FALSE
    /\ reqs = [i \in Slots |-> Idle]
    /\ last = NoRequest
    /\ codesIssued = [id \in Ids |-> 0]
    /\ tokensIssued = [id \in Ids |-> 0]
    /\ redirectMismatch = {}
    /\ logins = 0
    /\ keys \in KeysInputs
    /\ nonces = NoRows

\* callers of Keys.Encrypt and Keys.Decrypt while the keys rotate
NextSecrets ==
    \/ \E i \in Slots, v \in SecretInputs : SecretEncrypt(i, v)
    \/ \E i \in Slots : SecretDecrypt(i)
    \/ \E i \in Slots, cipherText \in CipherTextInputs : DecryptHeld(i, cipherText)
    \/ Rotate
    \/ \E d \in TickSteps : Tick(d)

SpecSecrets == InitKeysInputs /\ [][NextSecrets]_vars

\* one login, its code grant and its refresh grant while the keys rotate, and
\* /keys at any moment
NextSigning ==
    \/ \E i \in Slots : HandleAuthorization(i, AuthForm, TRUE)
    \/ \E i \in Slots, form \in ConnectorForms :
           /\ form.connector = "mock" /\ form.state \in DOMAIN authRequests
           /\ HandleConnectorCallback(i, form, "ok")
    \/ \E i \in Slots : RedirectToApproval(i)
    \/ \E i \in Slots, form \in ApprovalForms :
           /\ form.state \in DOMAIN authRequests
           /\ form.method = "POST" /\ form.approval = "approve"
           /\ HandleApproval(i, form)
    \/ \E i \in Slots : SendCodeDelete(i)
    \/ \E i \in Slots : SendCodeCreate(i, TRUE)
    \/ \E i \in Slots, form \in TokenForms :
           /\ form.client_id = "c1" /\ form.client_secret = "s1"
           /\ form.redirect_uri = appCallback /\ form.scope = <<>>
           /\ \/ form.grant_type = "authorization_code" /\ Has(authCodes, form.code)
              \/ /\ form.grant_type = "refresh_token" /\ form.refresh_token # Nil
                 /\ Has(refreshTokens, Deref(form.refresh_token))
           /\ HandleToken(i, form)
    \/ \E i \in Slots : AuthCodeDelete(i)
    \/ \E i \in Slots : AuthCodeCreateRefresh(i, TRUE)
    \/ \E i \in Slots : RefreshDelete(i)
    \/ \E i \in Slots : RefreshCreate(i, TRUE)
    \/ \E i \in Slots : HandlePublicKeys(i)
    \/ Rotate
    \/ \E d \in TickSteps : Tick(d)

SpecSigning == InitKeysInputs /\ [][NextSigning]_vars

-----------------------------------------------------------------------------
(* storage/storagetest: the conformance tests, run against the
   implementations of storage.Storage. *)

\* the implementations: the Kubernetes client, and the table of rows that
\* keeps the interface's contract
Implementations == {"kubernetes", "memory"}

ErrNotFound == "not found"
ErrAlreadyExists == "ID already exists"

\* the zero storage.Identity and storage.Refresh
ZeroIdentity == Identity("", "", "", FALSE, <<>>, <<>>)
ZeroRefresh ==
    [RefreshToken |-> 0, ClientID |-> "", ConnectorID |-> "", Scopes |-> <<>>,
     Identity |-> ZeroIdentity, Nonce |-> "", Expiry |-> ZeroTime]

\* Create of a row: [rows, err]
storageCreate(s, rows, id, row) ==
    IF s = "kubernetes" THEN [rows |-> rows, err |-> ""]
    ELSE IF Has(rows, id) THEN [rows |-> rows, err |-> ErrAlreadyExists]
    ELSE [rows |-> Put(rows, id, row), err |-> ""]

\* Get of a row: [v, err]; zero is the zero value of the row's type
storageGet(s, rows, id, zero) ==
    IF s = "kubernetes" THEN [v |-> zero, err |-> ""]
    ELSE IF Has(rows, id) THEN [v |-> rows[id], err |-> ""]
    ELSE [v |-> zero, err |-> ErrNotFound]

\* Delete of a row: [rows, err]
storageDelete(s, rows, id) ==
    IF s = "kubernetes" THEN [rows |-> rows, err |-> ""]
    ELSE IF Has(rows, id) THEN [rows |-> Remove(rows, id), err |-> ""]
    ELSE [rows |-> rows, err |-> ErrNotFound]

\* UpdateAuthRequest with the updater of testUpdateAuthRequest: [rows, err]
storageUpdateAuthRequest(s, rows, id, identity, connectorID) ==
    IF s = "kubernetes" THEN [rows |-> rows, err |-> ""]
    ELSE IF Has(rows, id)
    THEN [rows |-> Put(rows, id, updater(rows[id], identity, connectorID)), err |-> ""]
    ELSE [rows |-> rows, err |-> ErrNotFound]

\* what a test reports: the t.Fatalf and t.Errorf messages
TestResult(failures) ==
    [status |-> 0, err |-> IF failures = <<>> THEN "" ELSE "FAIL", desc |-> failures,
     location |-> Nil, code |-> 0, token |-> Nil]

neverExpire == MaxTime + 1

\* the refresh tokens the test stores
RefreshInputs(id) ==
    {[ZeroRefresh EXCEPT !.RefreshToken = id, !.ClientID = "client_id",
                         !.ConnectorID = "client_secret",
                         !.Scopes = <<scopeOpenID, scopeEmail, scopeProfile>>],
     [ZeroRefresh EXCEPT !.RefreshToken = id, !.ClientID = "c1", !.ConnectorID = "mock",
                         !.Scopes = <<scopeOpenID, scopeOfflineAccess>>,
                         !.Identity = Identity("", "", "foobar", FALSE, <<>>, <<>>)]}

\* testCreateRefresh: CreateRefresh(refresh)
TestCreateRefresh(i, s) ==
    LET id == NewNonce IN
    \E refresh \in RefreshInputs(id) :
        LET created == storageCreate(s, refreshTokens, id, refresh)
            loc == [s |-> s, id |-> id, refresh |-> refresh, got |-> Nil, getErr |-> "",
                    deleteErr |-> "", gotDeleted |-> "", failures |-> <<>>]
        IN
        /\ Free(i)
        /\ nextNonce <= MaxNonce
        /\ nextNonce' = nextNonce + 1
        /\ refreshTokens' = created.rows
        /\ UNCHANGED <<clients, authRequests, authCodes>>
        /\ IF created.err # ""
           THEN Finish(i, "testCreateRefresh", loc, TestResult(<<"create refresh token">>))
           ELSE Continue(i, "GetRefresh", "testCreateRefresh", loc)
        /\ UNCHANGED <<now, staticVars, logins, historyVars>>

\* testCreateRefresh: GetRefresh(id) and the comparison with refresh
TestGetRefresh(i) ==
    LET r == reqs[i]
        got == storageGet(r.loc.s, refreshTokens, r.loc.id, ZeroRefresh)
        loc == [r.loc EXCEPT !.got = IF got.err = "" THEN Ptr(got.v) ELSE Nil,
                             !.getErr = got.err,
                             !.failures = IF got.err = "" /\ got.v # r.loc.refresh
                                          THEN <<"refresh returned did not match expected">>
                                          ELSE <<>>]
    IN
    /\ r.pc = "GetRefresh" /\ r.handler = "testCreateRefresh"
    /\ UNCHANGED storageVars
    /\ IF got.err # ""
       THEN Finish(i, r.handler, loc, TestResult(<<"get refresh">>))
       ELSE Continue(i, "DeleteRefresh", r.handler, loc)
    /\ UNCHANGED <<now, nextNonce, staticVars, logins, historyVars>>

\* testCreateRefresh: DeleteRefresh(id)
TestDeleteRefresh(i) ==
    LET r == reqs[i]
        deleted == storageDelete(r.loc.s, refreshTokens, r.loc.id)
        loc == [r.loc EXCEPT !.deleteErr = deleted.err]
    IN
    /\ r.pc = "DeleteRefresh" /\ r.handler = "testCreateRefresh"
    /\ refreshTokens' = deleted.rows
    /\ UNCHANGED <<clients, authRequests, authCodes>>
    /\ IF deleted.err # ""
       THEN Finish(i, r.handler, loc,
                   TestResult(r.loc.failures \o <<"failed to delete refresh request">>))
       ELSE Continue(i, "GetRefreshDeleted", r.handler, loc)
    /\ UNCHANGED <<now, nextNonce, staticVars, logins, historyVars>>

\* testCreateRefresh: the GetRefresh(id) after the delete
TestGetRefreshDeleted(i) ==
    LET r == reqs[i]
        got == storageGet(r.loc.s, refreshTokens, r.loc.id, ZeroRefresh)
        loc == [r.loc EXCEPT !.gotDeleted = got.err]
    IN
    /\ r.pc = "GetRefreshDeleted" /\ r.handler = "testCreateRefresh"
    /\ UNCHANGED storageVars
    /\ Finish(i, r.handler, loc,
              TestResult(r.loc.failures \o
                  IF got.err # ErrNotFound
                  THEN <<"after deleting refresh expected storage.ErrNotFound">>
                  ELSE <<>>))
    /\ UNCHANGED <<now, nextNonce, staticVars, logins, historyVars>>

\* a caller's DeleteRefresh of the token that the test which just ended deleted
DeleteRefreshAgain(i) ==
    LET deleted == storageDelete(last.loc.s, refreshTokens, last.loc.id) IN
    /\ Free(i)
    /\ last.handler = "testCreateRefresh" /\ last.loc.getErr = "" /\ last.loc.deleteErr = ""
    /\ refreshTokens' = deleted.rows
    /\ UNCHANGED <<clients, authRequests, authCodes>>
    /\ Finish(i, "DeleteRefresh", [s |-> last.loc.s, id |-> last.loc.id],
              ErrorResponse(0, deleted.err, ""))
    /\ UNCHANGED <<now, nextNonce, staticVars, logins, historyVars>>

\* the requests and identities the test stores
TestAuthRequest(id) ==
    [ZeroAuthRequest EXCEPT !.ID = id, !.ClientID = "foobar", !.ResponseTypes = <<"code">>,
                            !.Scopes = <<scopeOpenID, scopeEmail>>,
                            !.RedirectURI = URI("https", "localhost", <<80>>, "/callback"),
                            !.Expiry = neverExpire]

TestIdentities ==
    {Identity("", "", "foobar", FALSE, <<>>, <<>>), ConnectorIdentity("mock")}

\* testUpdateAuthRequest: CreateAuthRequest(a)
TestUpdateAuthRequest(i, s) ==
    LET id == NewNonce
        a == TestAuthRequest(id)
        created == storageCreate(s, authRequests, id, a)
    IN
    \E identity \in TestIdentities :
        LET loc == [s |-> s, id |-> id, a |-> a, identity |-> identity,
                    updateErr |-> "", got |-> Nil]
        IN
        /\ Free(i)
        /\ nextNonce <= MaxNonce
        /\ nextNonce' = nextNonce + 1
        /\ authRequests' = created.rows
        /\ UNCHANGED <<clients, authCodes, refreshTokens>>
        /\ IF created.err # ""
           THEN Finish(i, "testUpdateAuthRequest", loc,
                       TestResult(<<"failed creating auth request">>))
           ELSE Continue(i, "UpdateAuthRequest", "testUpdateAuthRequest", loc)
        /\ UNCHANGED <<now, staticVars, logins, historyVars>>

\* testUpdateAuthRequest: UpdateAuthRequest(a.ID, updater)
TestUpdate(i) ==
    LET r == reqs[i]
        updated == storageUpdateAuthRequest(r.loc.s, authRequests, r.loc.id,
                                            r.loc.identity, "connID")
        loc == [r.loc EXCEPT !.updateErr = updated.err]
    IN
    /\ r.pc = "UpdateAuthRequest" /\ r.handler = "testUpdateAuthRequest"
    /\ authRequests' = updated.rows
    /\ UNCHANGED <<clients, authCodes, refreshTokens>>
    /\ IF updated.err # ""
       THEN Finish(i, r.handler, loc, TestResult(<<"failed to update auth request">>))
       ELSE Continue(i, "GetAuthRequest", r.handler, loc)
    /\ UNCHANGED <<now, nextNonce, staticVars, logins, historyVars>>

\* testUpdateAuthRequest: GetAuthRequest(a.ID) and the checks of got.Identity
TestGetAuthRequest(i) ==
    LET r == reqs[i]
        got == storageGet(r.loc.s, authRequests, r.loc.id, ZeroAuthRequest)
        loc == [r.loc EXCEPT !.got = IF got.err = "" THEN Ptr(got.v) ELSE Nil]
    IN
    /\ r.pc = "GetAuthRequest" /\ r.handler = "testUpdateAuthRequest"
    /\ UNCHANGED storageVars
    /\ Finish(i, r.handler, loc,
              TestResult(IF got.err # "" THEN <<"failed to get auth req">>
                         ELSE IF got.v.Identity = Nil THEN <<"no identity in auth request">>
                         ELSE IF Deref(got.v.Identity) # r.loc.identity
                              THEN <<"update failed">>
                              ELSE <<>>))
    /\ UNCHANGED <<now, nextNonce, staticVars, logins, historyVars>>

\* RunTestSuite against each implementation, and callers beside it
NextStorage ==
    \/ \E i \in Slots, s \in Implementations : TestUpdateAuthRequest(i, s)
    \/ \E i \in Slots : TestUpdate(i)
    \/ \E i \in Slots : TestGetAuthRequest(i)
    \/ \E i \in Slots, s \in Implementations : TestCreateRefresh(i, s)
    \/ \E i \in Slots : TestGetRefresh(i)
    \/ \E i \in Slots : TestDeleteRefresh(i)
    \/ \E i \in Slots : TestGetRefreshDeleted(i)
    \/ \E i \in Slots : DeleteRefreshAgain(i)

SpecStorage == Init /\ [][NextStorage]_vars

-----------------------------------------------------------------------------
(* Nonces: CreateNonce and DeleteNonce of storage.Storage. *)

\* storage.Nonce
Nonce(value, expiry) == [Nonce |-> value, Expiry |-> expiry]

NonceInputs == {Nonce(v, e) : v \in {"n1", "n2"}, e \in {CodeLifetime, neverExpire}}

\* a DeleteNonce that does not look for the row
deleteNonceUnchecked(rows, value) == [rows |-> Remove(rows, value), err |-> ""]

\* CreateNonce(n): [rows, err]
createNonce(rows, n) ==
    IF Has(rows, n.Nonce) THEN [rows |-> rows, err |-> ErrAlreadyExists]
    ELSE [rows |-> Put(rows, n.Nonce, n), err |-> ""]

\* DeleteNonce(nonce), atomic: [rows, err]
deleteNonce(rows, value) ==
    IF Has(rows, value) THEN [rows |-> Remove(rows, value), err |-> ""]
    ELSE [rows |-> rows, err |-> ErrNotFound]

\* a caller's CreateNonce(n)
CreateNonce(i, n) ==
    LET created == createNonce(nonces, n) IN
    /\ Free(i)
    /\ nonces' = created.rows
    /\ UNCHANGED storageVars
    /\ Finish(i, "CreateNonce", [n |-> n], ErrorResponse(0, created.err, ""))
    /\ UNCHANGED <<now, nextNonce, skipApproval, keys, logins, historyVars>>

\* a caller sets out to claim the nonce; present is whether the row is there
\* at that moment
ClaimNonce(i, value) ==
    /\ Free(i)
    /\ UNCHANGED storageVars
    /\ Continue(i, "DeleteNonce", "DeleteNonce",
                [value |-> value, present |-> Has(nonces, value)])
    /\ UNCHANGED <<now, nextNonce, staticVars, logins, historyVars>>

\* the caller's DeleteNonce(nonce)
DeleteNonce(i) ==
    LET r == reqs[i]
        deleted == deleteNonce(nonces, r.loc.value)
    IN
    /\ r.pc = "DeleteNonce"
    /\ nonces' = deleted.rows
    /\ UNCHANGED storageVars
    /\ Finish(i, "DeleteNonce", r.loc, ErrorResponse(0, deleted.err, ""))
    /\ UNCHANGED <<now, nextNonce, skipApproval, keys, logins, historyVars>>

NextNonces ==
    \/ \E i \in Slots, n \in NonceInputs : CreateNonce(i, n)
    \/ \E i \in Slots, n \in NonceInputs : ClaimNonce(i, n.Nonce)
    \/ \E i \in Slots : DeleteNonce(i)

SpecNonces == Init /\ [][NextNonces]_vars

-----------------------------------------------------------------------------
(* Logins up to the code, for clients whose redirect URIs carry a query. *)

tenantCallback == WithRawQuery(appCallback, << <<"tenant", "t1">> >>)
busyCallback ==
    WithRawQuery(appCallback,
                 << <<"state", "old">>, <<"b", "2">>, <<"a", "1">>, <<"b", "1">> >>)

CodeAuthForms ==
    { [AuthForm EXCEPT !.redirect_uri = uri, !.state = f.state, !.nonce = f.nonce,
                       !.scope = f.scope] :
          uri \in {appCallback, tenantCallback, busyCallback},
          f \in { [state |-> "xyz", nonce |-> "n1", scope |-> <<scopeOpenID, scopeEmail>>],
                  [state |-> "", nonce |-> "", scope |-> <<scopeOpenID, scopeGroups>>] } }

InitCode ==
    /\ clients = Put(InitClients, "c1",
                     Client("c1", "s1", <<appCallback, tenantCallback, busyCallback>>,
                            <<>>, FALSE))
    /\ authRequests = NoRows
    /\ authCodes = NoRows
    /\ refreshTokens = NoRows
    /\ now = 1
    /\ nextNonce = 1
    /\ skipApproval \in BOOLEAN
    /\ reqs = [i \in Slots |-> Idle]
    /\ last = NoRequest
    /\ codesIssued = [id \in Ids |-> 0]
    /\ tokensIssued = [id \in Ids |-> 0]
    /\ redirectMismatch = {}
    /\ logins = 0
    /\ keys = InitKeys
    /\ nonces = NoRows

NextCode ==
    \/ \E i \in Slots, form \in CodeAuthForms : HandleAuthorization(i, form, TRUE)
    \/ \E i \in Slots, form \in ConnectorForms :
           /\ form.method = "POST" /\ form.connector = "ldap"
           /\ form.state \in DOMAIN authRequests
           /\ HandleConnectorLogin(i, form, "ok")
    \/ \E i \in Slots, connID \in {"mock", "sso", "directory"},
          state \in DOMAIN authRequests \cup {0}, login \in {"ok", "groupsError"} :
           HandleConnectorCallback(i, [method |-> "GET", connector |-> connID,
                                       state |-> state], login)
    \/ \E i \in Slots : RedirectToApproval(i)
    \/ \E i \in Slots, form \in ApprovalForms :
           /\ form.state \in DOMAIN authRequests
           /\ form.method = "GET" \/ form.approval = "approve"
           /\ HandleApproval(i, form)
    \/ \E i \in Slots : SendCodeDelete(i)
    \/ \E i \in Slots, created \in BOOLEAN : SendCodeCreate(i, created)
    \/ \E d \in TickSteps : Tick(d)

SpecCode == InitCode /\ [][NextCode]_vars

\* logins through the mock connector and through a connector whose identity
\* holds ConnectorData, up to the tokens of both grants
NextData ==
    \/ \E i \in Slots, form \in ClaimsAuthForms : HandleAuthorization(i, form, TRUE)
    \/ \E i \in Slots, connID \in {"mock", "directory"}, state \in DOMAIN authRequests :
           HandleConnectorCallback(i, [method |-> "GET", connector |-> connID,
                                       state |-> state], "ok")
    \/ \E i \in Slots : RedirectToApproval(i)
    \/ \E i \in Slots, form \in ApprovalForms :
           /\ form.state \in DOMAIN authRequests
           /\ HandleApproval(i, form)
    \/ \E i \in Slots : SendCodeDelete(i)
    \/ \E i \in Slots : SendCodeCreate(i, TRUE)
    \/ \E i \in Slots, form \in TokenForms :
           /\ form.client_id = "c1" /\ form.client_secret = "s1"
           /\ \/ form.grant_type = "authorization_code" /\ Has(authCodes, form.code)
              \/ /\ form.grant_type = "refresh_token" /\ form.refresh_token # Nil
                 /\ Has(refreshTokens, Deref(form.refresh_token))
           /\ HandleToken(i, form)
    \/ \E i \in Slots : AuthCodeDelete(i)
    \/ \E i \in Slots : AuthCodeCreateRefresh(i, TRUE)
    \/ \E i \in Slots : RefreshDelete(i)
    \/ \E i \in Slots : RefreshCreate(i, TRUE)

SpecData == InitToken /\ [][NextData]_vars

-----------------------------------------------------------------------------
(* storage/kubernetes: the URLs of the API client.  A string is the sequence
   of its pieces, a slash being the piece "/". *)

\* strings.HasSuffix(s, "/")
HasSuffixSlash(s) == s # <<>> /\ s[Len(s)] = "/"

\* the elements of a path between its slashes
RECURSIVE splitPath(_, _, _)
splitPath(s, element, elements) ==
    IF s = <<>> THEN Append(elements, element)
    ELSE IF Head(s) = "/" THEN splitPath(Tail(s), <<>>, Append(elements, element))
    ELSE splitPath(Tail(s), Append(element, Head(s)), elements)

\* strings.Join(elements, "/")
RECURSIVE joinPath(_)
joinPath(elements) ==
    IF elements = <<>> THEN <<>>
    ELSE IF Len(elements) = 1 THEN Head(elements)
    ELSE Head(elements) \o <<"/">> \o joinPath(Tail(elements))

\* path.Clean, element by element: empty and "." elements go, ".." takes the
\* element before it with it
RECURSIVE cleanElements(_, _, _)
cleanElements(elements, out, rooted) ==
    IF elements = <<>> THEN out
    ELSE LET e == Head(elements)
             rest == Tail(elements)
         IN
         IF e = <<>> \/ e = <<".">> THEN cleanElements(rest, out, rooted)
         ELSE IF e = <<"..">>
         THEN IF out # <<>> /\ out[Len(out)] # <<"..">>
              THEN cleanElements(rest, SubSeq(out, 1, Len(out) - 1), rooted)
              ELSE IF rooted THEN cleanElements(rest, out, rooted)
              ELSE cleanElements(rest, Append(out, e), rooted)
         ELSE cleanElements(rest, Append(out, e), rooted)

Clean(s) ==
    IF s = <<>> THEN <<".">>
    ELSE LET rooted == Head(s) = "/"
             out == cleanElements(splitPath(s, <<>>, <<>>), <<>>, rooted)
         IN
         IF rooted THEN <<"/">> \o joinPath(out)
         ELSE IF out = <<>> THEN <<".">>
         ELSE joinPath(out)

\* path.Join: the non-empty elements, joined by slashes and cleaned
Join(elem) ==
    LET nonEmpty == SelectSeq(elem, LAMBDA e : e # <<>>) IN
    IF nonEmpty = <<>> THEN <<>> ELSE Clean(joinPath(nonEmpty))

\* a client that puts a slash after every baseURL
urlForAlwaysSlash(baseURL, apiGroup, version, namespace, resource, name) ==
    LET basePath == IF apiGroup = <<>> THEN <<"api", "/">> ELSE <<"apis", "/">>
        p == IF namespace # <<>>
             THEN Join(<<basePath, apiGroup, version, <<"namespaces">>, namespace,
                         resource, name>>)
             ELSE Join(<<basePath, apiGroup, version, resource, name>>)
    IN
    baseURL \o <<"/">> \o p

urlFor(baseURL, apiGroup, version, namespace, resource, name) ==
    LET basePath == IF apiGroup = <<>> THEN <<"api", "/">> ELSE <<"apis", "/">>
        p == IF namespace # <<>>
             THEN Join(<<basePath, apiGroup, version, <<"namespaces">>, namespace,
                         resource, name>>)
             ELSE Join(<<basePath, apiGroup, version, resource, name>>)
    IN
    IF HasSuffixSlash(baseURL) THEN baseURL \o p ELSE baseURL \o <<"/">> \o p

\* the clients and the resources the URLs are built for
BaseURLInputs ==
    {<<"https:", "/", "/", "k8s.example.com">>,
     <<"https:", "/", "/", "k8s.example.com", "/">>,
     <<"https:", "/", "/", "k8s.example.com", "/", "cluster">>,
     <<"https:", "/", "/", "k8s.example.com", "/", "cluster", "/">>}

ResourceInputs ==
    [apiGroup : {<<>>, <<"foo">>, <<"oidc.coreos.com">>},
     version : {<<"v1">>},
     namespace : {<<>>, <<"default">>},
     resource : {<<"pods">>, <<"bar">>, <<"authcodes">>},
     name : {<<>>, <<"a">>}]

\* get, and list with its empty name, up to the URL they request; post, delete
\* and patch build theirs the same way
ClientGet(i) ==
    \E baseURL \in BaseURLInputs, r \in ResourceInputs :
        /\ Free(i)
        /\ UNCHANGED <<storageVars, now, nextNonce, staticVars, logins, historyVars>>
        /\ Finish(i, "get", [baseURL |-> baseURL, apiGroup |-> r.apiGroup,
                             version |-> r.version, namespace |-> r.namespace,
                             resource |-> r.resource, name |-> r.name],
                  [url |-> urlFor(baseURL, r.apiGroup, r.version, r.namespace,
                                  r.resource, r.name)])

NextClient == \E i \in Slots : ClientGet(i)

SpecClient == Init /\ [][NextClient]_vars

-----------------------------------------------------------------------------
(* Properties. *)

\* the request the latest step completed, when it was handled by /token
TokenDone == last.handler = "token"
CodeGrantDone == TokenDone /\ last.loc.ran = "handleAuthCode"
RefreshGrantDone == TokenDone /\ last.loc.ran = "handleRefreshToken"
ApprovalDone == last.handler = "approval"

IsInvalidRequest(resp) == resp.status = StatusBadRequest /\ resp.err = errInvalidRequest

\* C1: of the /token requests that present one authorization code, under any
\* interleaving, at most one is answered with a token response: a code grant
\* that ends in a token response is the first and only one for its code.
C1_OneTokenPerCode ==
    (CodeGrantDone /\ IsTokenResponse(last.resp)) => tokensIssued[last.loc.presented] = 1

\* two requests raced for one code: one was answered with the token, and the
\* other has now found the code already deleted
C1_Witness ==
    /\ CodeGrantDone
    /\ last.loc.deleted = "notfound"
    /\ ~last.loc.late
    /\ tokensIssued[last.loc.presented] = 1

\* C2: once a refresh grant presenting R has succeeded, R is not in storage, a
\* new refresh token other than R is stored and returned, and every refresh
\* grant that presents R afterwards fails with invalid_request.
C2_RefreshRotated ==
    /\ (RefreshGrantDone /\ IsTokenResponse(last.resp)) =>
           LET new == Deref(last.resp.token).refresh_token IN
           /\ ~Has(refreshTokens, last.loc.presented)
           /\ new # last.loc.presented
           /\ Has(refreshTokens, new)
           /\ refreshTokens[new].RefreshToken = new
    /\ (RefreshGrantDone /\ last.loc.late) =>
           IsInvalidRequest(last.resp) /\ ~IsTokenResponse(last.resp)

\* a refresh token that was redeemed before is presented again, by its client
C2_Witness ==
    /\ RefreshGrantDone
    /\ last.loc.late
    /\ last.loc.client_id = "c1"
    /\ refreshTokens # NoRows
    /\ IsInvalidRequest(last.resp)

\* C3: a refresh grant issues its token over scopes of the stored Refresh only,
\* all of them when the request names none; a request that names a scope
\* outside them is refused with invalid_request, gets no token and leaves the
\* Refresh in storage.
C3_RefreshScopes ==
    (RefreshGrantDone /\ last.loc.found # Nil) =>
        LET refresh == Deref(last.loc.found)
            outside == Range(last.loc.scope) \ Range(refresh.Scopes)
        IN
        /\ IsTokenResponse(last.resp) =>
               /\ Range(last.loc.scopes) \subseteq Range(refresh.Scopes)
               /\ last.loc.scope = <<>> => last.loc.scopes = refresh.Scopes
               /\ Ptr(Deref(last.resp.token).id_token.payload) =
                      newIDToken(clients, last.loc.client_id, refresh.Identity,
                                 last.loc.scopes, refresh.Nonce)
        /\ (refresh.ClientID = last.loc.client_id /\ outside # {}) =>
               /\ IsInvalidRequest(last.resp)
               /\ ~IsTokenResponse(last.resp)
               /\ last.loc.deleted = ""
               /\ ~last.wrote

\* the client's own refresh token with a scope it was not granted: refused, and
\* the Refresh is still there
C3_Witness ==
    /\ RefreshGrantDone
    /\ last.loc.found # Nil
    /\ Deref(last.loc.found).ClientID = last.loc.client_id
    /\ Range(last.loc.scope) \ Range(Deref(last.loc.found).Scopes) # {}
    /\ IsInvalidRequest(last.resp)
    /\ Has(refreshTokens, last.loc.presented)

\* the parameters an AuthRequest was made from pass parseAuthorizationRequest
Validated(a) ==
    parseAuthorizationRequest(clients,
        [client_id |-> a.ClientID, redirect_uri |-> a.RedirectURI, scope |-> a.Scopes,
         response_type |-> a.ResponseTypes, state |-> a.State, nonce |-> a.Nonce,
         approval_prompt |-> IF a.ForceApprovalPrompt THEN "force" ELSE ""],
        a.ID).err = Nil

\* C4: a /auth request that fails parseAuthorizationRequest's validation
\* creates no AuthRequest and leaves the storage as it was; an AuthRequest is
\* created only when the validation has succeeded.
C4_FailedAuthStoresNothing ==
    /\ (last.handler = "auth" /\ last.loc.err # Nil) =>
           ~last.wrote /\ last.resp.status # StatusOK
    /\ (last.handler = "auth" /\ last.wrote) => last.loc.err = Nil
    /\ \A id \in DOMAIN authRequests : Validated(authRequests[id])

\* a request with an unrecognized scope was refused
C4_Witness ==
    /\ last.handler = "auth"
    /\ last.loc.err # Nil
    /\ Deref(last.loc.err).Type = errInvalidScope
    /\ last.resp.status = StatusInternalServerError

\* C5: at most one AuthCode is ever created from an AuthRequest, and the
\* request whose DeleteAuthRequest returns ErrNotFound is refused with
\* invalid_request, "already completed".
C5_OneCodePerAuthRequest ==
    /\ \A a \in Ids : codesIssued[a] <= 1
    /\ (ApprovalDone /\ last.loc.deleted = "notfound") =>
           /\ IsInvalidRequest(last.resp)
           /\ last.resp.desc = "Authorization request has already been completed."
           /\ ~last.wrote

\* two approvals raced for one AuthRequest: the code was issued to one, and the
\* other has now found the AuthRequest already deleted
C5_Witness ==
    /\ ApprovalDone
    /\ last.loc.deleted = "notfound"
    /\ codesIssued[Deref(last.loc.found).ID] = 1

\* C6: /approval for an AuthRequest whose Identity is nil answers server_error,
\* creates no AuthCode and does not delete the AuthRequest.
C6_NoIdentityNoCode ==
    /\ (ApprovalDone /\ last.loc.found # Nil /\ Deref(last.loc.found).Identity = Nil) =>
           /\ last.resp.status = StatusInternalServerError
           /\ last.resp.err = errServerError
           /\ last.loc.deleted = ""
           /\ ~last.wrote
    /\ \A i \in Slots :
           reqs[i].pc \in {"DeleteAuthRequest", "CreateAuthCode"} =>
               reqs[i].loc.authReq.Identity # Nil

\* an approval arrived for an AuthRequest in storage before any login
C6_Witness ==
    /\ ApprovalDone
    /\ last.loc.found # Nil
    /\ Deref(last.loc.found).Identity = Nil
    /\ Has(authRequests, Deref(last.loc.found).ID)
    /\ last.resp.err = errServerError

\* a stored AuthRequest has its Identity set exactly when its ConnectorID is
C7_IdentityIffConnector ==
    \A id \in DOMAIN authRequests :
        (authRequests[id].Identity # Nil) <=> (authRequests[id].ConnectorID # "")

\* the Identity or the ConnectorID of a stored AuthRequest changes only in the
\* UpdateAuthRequest of redirectToApproval, reached after the connector
\* authenticated the user
C7_SetByRedirectToApproval ==
    \A id \in DOMAIN authRequests \cap DOMAIN authRequests' :
        (\/ authRequests'[id].Identity # authRequests[id].Identity
         \/ authRequests'[id].ConnectorID # authRequests[id].ConnectorID) =>
            \E i \in Slots :
                /\ reqs[i].pc = "UpdateAuthRequest"
                /\ reqs[i].loc.login = "ok"
                /\ reqs[i].loc.state = id
                /\ reqs'[i].pc = "idle"
                /\ authRequests'[id].Identity = Ptr(reqs[i].loc.identity)
                /\ authRequests'[id].ConnectorID = reqs[i].loc.connectorID

\* the AuthRequest /auth has just stored carries neither
C7_UnsetByAuth ==
    (last.handler = "auth" /\ last.wrote) =>
        /\ Has(authRequests, last.resp.code)
        /\ authRequests[last.resp.code].Identity = Nil
        /\ authRequests[last.resp.code].ConnectorID = ""

\* redirectToApproval is reached only with the connector's identity
C7_AfterLogin ==
    \A i \in Slots : reqs[i].pc = "UpdateAuthRequest" =>
        /\ reqs[i].loc.login = "ok"
        /\ reqs[i].loc.connectorID \in DOMAIN Connectors

\* C7: a stored AuthRequest has its Identity set if and only if its
\* ConnectorID is set: both are unset when /auth stores it, and the two are set
\* together, in the one UpdateAuthRequest of redirectToApproval, which runs only
\* after the connector authenticated the user.
C7_IdentityWithConnector ==
    /\ []C7_IdentityIffConnector
    /\ []C7_UnsetByAuth
    /\ []C7_AfterLogin
    /\ [][C7_SetByRedirectToApproval]_vars

\* redirectToApproval has answered with the redirect to /approval, and the
\* AuthRequest carries the identity and the connector
C7_Witness ==
    /\ last.handler \in {"login", "callback"}
    /\ last.resp.status = StatusSeeOther
    /\ \E id \in DOMAIN authRequests :
           authRequests[id].Identity # Nil /\ authRequests[id].ConnectorID # ""

\* whether the credentials of the request fail handleToken's authentication
BadClient(clientID, clientSecret) ==
    Get(clients, clientID) = Nil \/ Deref(Get(clients, clientID)).Secret # clientSecret

\* C8: /token answers an unknown client_id and a wrong client_secret alike,
\* 401 invalid_client with one description and never a redirect; it issues no
\* token, runs no grant handler and leaves the storage as it was.
C8_InvalidClientAlike ==
    (TokenDone /\ BadClient(last.loc.client_id, last.loc.client_secret)) =>
        /\ last.resp.status = StatusUnauthorized
        /\ last.resp.err = errInvalidClient
        /\ last.resp.location = Nil
        /\ \A cred \in BadCredentials :
               handleTokenClient(clients, cred[1], cred[2]) = Ptr(last.resp)
        /\ ~IsTokenResponse(last.resp)
        /\ last.loc.ran = ""
        /\ ~last.wrote

\* a wrong secret for c1 was presented while a code was in storage
C8_Witness ==
    /\ TokenDone
    /\ last.loc.client_id = "c1"
    /\ last.loc.client_secret # "s1"
    /\ authCodes # NoRows
    /\ last.resp.err = errInvalidClient

\* C9: in the authorization-code grant a code that is missing from storage,
\* has expired, or belongs to another client than the authenticated one is
\* answered with invalid_request, HTTP 400, never with server_error, HTTP 500.
C9_BadCodeIsInvalidRequest ==
    (/\ CodeGrantDone
     /\ \/ last.loc.found = Nil
        \/ last.loc.t > Deref(last.loc.found).Expiry
        \/ Deref(last.loc.found).ClientID # last.loc.client_id) =>
        IsInvalidRequest(last.resp)

\* C10: a code grant with a redirect_uri other than the AuthCode's is refused
\* with invalid_request and the code stays consumed: no later /token request
\* with that code succeeds, even with the right redirect_uri.
C10_MismatchConsumesCode ==
    /\ (CodeGrantDone /\ last.resp.desc = redirectMismatchDescription) =>
           IsInvalidRequest(last.resp)
    /\ (CodeGrantDone /\ last.loc.afterMismatch) => ~IsTokenResponse(last.resp)

\* C11: in the refresh-token grant a refresh token that is missing from
\* storage, or belongs to another client than the authenticated one, is
\* answered with invalid_request, HTTP 400, never with server_error, HTTP 500,
\* and the stored Refresh is left as it was.
C11_BadRefreshIsInvalidRequest ==
    (/\ RefreshGrantDone
     /\ \/ last.loc.found = Nil
        \/ Deref(last.loc.found).ClientID # last.loc.client_id) =>
        /\ IsInvalidRequest(last.resp)
        /\ ~last.wrote

\* C12: when two /token requests race for one authorization code or one
\* refresh token and both pass the Get, the loser, whose Delete returns
\* ErrNotFound after the winner was answered with the token, is answered with
\* invalid_request and not with server_error.
C12_RaceLoserIsInvalidRequest ==
    (/\ TokenDone
     /\ last.loc.ran # ""
     /\ last.loc.found # Nil
     /\ last.loc.deleted = "notfound"
     /\ tokensIssued[last.loc.presented] = 1) =>
        /\ IsInvalidRequest(last.resp)
        /\ last.resp.err # errServerError

expiredDescription == "Authorization request period has expired."

\* C13: sendCodeResponse refuses with invalid_request, "period has expired",
\* deleting nothing and creating no AuthCode, exactly when now >= authReq.expiry;
\* when now < authReq.expiry it goes on to consume the AuthRequest.
C13_ExpiredAuthRequestRefused ==
    (ApprovalDone /\ last.loc.sent) =>
        LET authReq == Deref(last.loc.found)
            refused == /\ IsInvalidRequest(last.resp)
                       /\ last.resp.desc = expiredDescription
                       /\ last.loc.deleted = ""
                       /\ ~last.wrote
        IN  /\ last.loc.t >= authReq.Expiry => refused
            /\ last.loc.t < authReq.Expiry => last.loc.deleted # ""

\* C14: a successful authorization-code grant creates a Refresh and returns a
\* refresh_token if and only if the scopes of the AuthCode contain
\* offline_access; the Refresh has a fresh token and the clientID, connectorID,
\* scopes, nonce and identity of the AuthCode.
C14_RefreshIffOfflineAccess ==
    /\ (CodeGrantDone /\ IsTokenResponse(last.resp)) =>
           LET authCode == Deref(last.loc.found)
               tok == Deref(last.resp.token).refresh_token
           IN  /\ (tok # 0) <=> (scopeOfflineAccess \in Range(authCode.Scopes))
               /\ tok # 0 =>
                      /\ tok = nextNonce - 1
                      /\ tok # last.loc.presented
                      /\ Has(refreshTokens, tok)
                      /\ refreshTokens[tok].RefreshToken = tok
                      /\ refreshTokens[tok].ClientID = authCode.ClientID
                      /\ refreshTokens[tok].ConnectorID = authCode.ConnectorID
                      /\ refreshTokens[tok].Scopes = authCode.Scopes
                      /\ refreshTokens[tok].Nonce = authCode.Nonce
                      /\ refreshTokens[tok].Identity = authCode.Identity
    /\ \A id \in DOMAIN refreshTokens :
           scopeOfflineAccess \in Range(refreshTokens[id].Scopes)

\* a code with offline_access was redeemed and its Refresh is in storage
C14_Witness ==
    /\ CodeGrantDone
    /\ IsTokenResponse(last.resp)
    /\ Deref(last.resp.token).refresh_token # 0
    /\ Has(refreshTokens, Deref(last.resp.token).refresh_token)

\* the peers the cross-client scopes of a scope list name
CrossClientPeers(scopes) ==
    {parseCrossClientScope(scopes[k])[1] :
        k \in {j \in DOMAIN scopes : parseCrossClientScope(scopes[j])[2]}}

\* peerID resolves to a Client whose trustedPeers contains clientID
PeerTrusts(peerID, clientID) ==
    Has(clients, peerID) /\ clientID \in Range(clients[peerID].TrustedPeers)

\* C15: /auth accepts a scope oauth2:server:client_id:PEER_ID only if PEER_ID is
\* the requesting client's own id ("clients inherently trust themselves") or
\* resolves to a Client in storage whose trustedPeers contains the requesting
\* client_id; for every other PEER_ID the request fails with invalid_scope and
\* no AuthRequest is stored.
C15_CrossClientScopeTrusted ==
    (last.handler = "auth") =>
        LET form == last.loc.form
            untrusted == {peerID \in CrossClientPeers(form.scope) :
                             /\ peerID # form.client_id
                             /\ ~PeerTrusts(peerID, form.client_id)}
        IN  /\ last.loc.err = Nil => untrusted = {}
            /\ (/\ untrusted # {}
                /\ Has(clients, form.client_id)
                /\ validateRedirectURI(clients[form.client_id], form.redirect_uri)) =>
                   /\ last.loc.err # Nil
                   /\ Deref(last.loc.err).Type = errInvalidScope
                   /\ ~last.wrote

\* a request naming a peer that exists and does not trust the client
C15_Witness ==
    /\ last.handler = "auth"
    /\ \E peerID \in CrossClientPeers(last.loc.form.scope) :
           /\ peerID # last.loc.form.client_id /\ Has(clients, peerID)
           /\ ~PeerTrusts(peerID, last.loc.form.client_id)
    /\ last.loc.err # Nil
    /\ Deref(last.loc.err).Type = errInvalidScope

\* C15 as the specification words it: the requesting client's own id is treated
\* as any other peer, so it too must be listed in that client's trustedPeers.
C15_CrossClientScopeNeedsTrust ==
    (last.handler = "auth") =>
        LET form == last.loc.form
            untrusted == {peerID \in CrossClientPeers(form.scope) :
                             ~PeerTrusts(peerID, form.client_id)}
        IN  /\ last.loc.err = Nil => untrusted = {}
            /\ (/\ untrusted # {}
                /\ Has(clients, form.client_id)
                /\ validateRedirectURI(clients[form.client_id], form.redirect_uri)) =>
                   /\ last.loc.err # Nil
                   /\ Deref(last.loc.err).Type = errInvalidScope
                   /\ ~last.wrote

\* the peers of scopes, clientID itself apart, that do not trust clientID in
\* the client rows s
Untrusting(s, clientID, scopes) ==
    {peerID \in CrossClientPeers(scopes) :
        /\ peerID # clientID
        /\ ~(Has(s, peerID) /\ clientID \in Range(s[peerID].TrustedPeers))}

\* C16: peer trust is validated again, against the storage as it then is, at
\* every token issuance: a code or refresh grant whose scopes name a peer
\* client that has been deleted or has dropped the client from its trustedPeers
\* since /auth accepted the scope issues no ID token.
C16_TrustRevalidatedAtIssuance ==
    (TokenDone /\ last.loc.ran # "" /\ last.loc.found # Nil) =>
        (Untrusting(last.loc.clients, last.loc.client_id, last.loc.scopes) # {}
            => ~IsTokenResponse(last.resp))

\* a grant for scopes /auth accepted, refused because the peer's row changed
C16_Witness ==
    /\ TokenDone
    /\ last.loc.ran \in {"handleAuthCode", "handleRefreshToken"}
    /\ last.loc.found # Nil
    /\ Deref(last.loc.found).ClientID = last.loc.client_id
    /\ Untrusting(last.loc.clients, last.loc.client_id, last.loc.scopes) # {}
    /\ ~IsTokenResponse(last.resp)

\* the number of cross-client scopes in a scope list
NumCrossClientScopes(scopes) ==
    Cardinality({k \in DOMAIN scopes : parseCrossClientScope(scopes[k])[2]})

\* C17: the aud claim of an ID token.  Without a cross-client peer aud is the
\* single string clientID and azp is absent; with exactly one peer aud is that
\* peer as a single string and azp is clientID; with two or more peers aud is
\* the JSON array of exactly those peers and azp is clientID.
C17_AudienceRule ==
    (TokenDone /\ IsTokenResponse(last.resp)) =>
        LET tok == Deref(last.resp.token).id_token.payload
            peers == CrossClientPeers(last.loc.scopes)
            n == NumCrossClientScopes(last.loc.scopes)
            clientID == last.loc.client_id
        IN  /\ n = 0 => tok.aud = JSONString(clientID) /\ "azp" \notin DOMAIN tok
            /\ n = 1 => /\ tok.aud.json = "string" /\ Range(tok.aud.elems) = peers
                        /\ "azp" \in DOMAIN tok /\ tok.azp = clientID
            /\ n >= 2 => /\ tok.aud.json = "array" /\ Range(tok.aud.elems) = peers
                         /\ Len(tok.aud.elems) = n
                         /\ "azp" \in DOMAIN tok /\ tok.azp = clientID

\* an ID token issued for exactly one peer
C17_Witness ==
    /\ TokenDone /\ IsTokenResponse(last.resp)
    /\ NumCrossClientScopes(last.loc.scopes) = 1
    /\ Deref(last.resp.token).id_token.payload.aud = JSONString("c2")

\* C17 as the specification words it: with one or more peers, exactly one
\* included, aud is a JSON array of the peers.
C17_AudienceArrayForPeers ==
    (TokenDone /\ IsTokenResponse(last.resp)) =>
        LET tok == Deref(last.resp.token).id_token.payload
            peers == CrossClientPeers(last.loc.scopes)
            n == NumCrossClientScopes(last.loc.scopes)
            clientID == last.loc.client_id
        IN  /\ n = 0 => tok.aud = JSONString(clientID) /\ "azp" \notin DOMAIN tok
            /\ n >= 1 => /\ tok.aud.json = "array" /\ Range(tok.aud.elems) = peers
                         /\ Len(tok.aud.elems) = n
                         /\ "azp" \in DOMAIN tok /\ tok.azp = clientID

\* the scopes in effect for the grant the latest step completed: the scope
\* parameter of a refresh grant when it has one, else the scopes stored
EffectiveScopes ==
    IF RefreshGrantDone /\ last.loc.scope # <<>> THEN last.loc.scope
    ELSE Deref(last.loc.found).Scopes

\* C18: the claims of an ID token follow the effective scopes only: email and
\* email_verified are present only with the email scope, groups only with
\* groups, name (the identity's username) only with profile; a refresh grant
\* that narrows the scopes is issued over the narrowed set.
C18_ClaimsFollowEffectiveScopes ==
    (TokenDone /\ IsTokenResponse(last.resp)) =>
        LET tok == Deref(last.resp.token).id_token.payload
            scopes == Range(EffectiveScopes)
            identity == Deref(last.loc.found).Identity
        IN  /\ "email" \in DOMAIN tok => scopeEmail \in scopes /\ tok.email = identity.Email
            /\ "email_verified" \in DOMAIN tok =>
                   scopeEmail \in scopes /\ tok.email_verified = identity.EmailVerified
            /\ "groups" \in DOMAIN tok => scopeGroups \in scopes /\ tok.groups = identity.Groups
            /\ "name" \in DOMAIN tok => scopeProfile \in scopes /\ tok.name = identity.Username

\* the refresh of {openid, email, profile, offline_access} narrowed to
\* {openid, email}: a token with email and without name
C18_Witness ==
    /\ RefreshGrantDone /\ IsTokenResponse(last.resp)
    /\ Deref(last.loc.found).Scopes =
           <<scopeOpenID, scopeEmail, scopeProfile, scopeOfflineAccess>>
    /\ last.loc.scope = <<scopeOpenID, scopeEmail>>
    /\ "email" \in DOMAIN Deref(last.resp.token).id_token.payload
    /\ "email_verified" \in DOMAIN Deref(last.resp.token).id_token.payload
    /\ "name" \notin DOMAIN Deref(last.resp.token).id_token.payload

\* the latest /auth request was refused for its redirect URI
RedirectRefused ==
    /\ last.loc.err # Nil
    /\ Deref(last.loc.err).Type = errInvalidRequest
    /\ Deref(last.loc.err).Description.fmt = "Unregistered redirect_uri (%q)."

\* http://localhost:PORT with a valid port and nothing after it
IsLocalhostWithPort(uri) ==
    /\ uri.scheme = "http" /\ uri.host = "localhost" /\ uri.path = ""
    /\ uri.port # Nil /\ Deref(uri.port) \in 1..65535

\* C19: validateRedirectURI accepts, for a non-public client, exactly the URIs
\* listed literally in the client's redirectURIs; for a public client, the
\* value urn:ietf:wg:oauth:2.0:oob and every http://localhost:PORT with a valid
\* port; it rejects everything else.
C19_RedirectURIAccepted ==
    (last.handler = "auth" /\ Has(clients, last.loc.form.client_id)) =>
        LET client == clients[last.loc.form.client_id]
            uri == last.loc.form.redirect_uri
        IN  ~RedirectRefused <=>
                IF ~client.Public THEN uri \in Range(client.RedirectURIs)
                ELSE uri = oobRedirectURI \/ IsLocalhostWithPort(uri)

\* the scopes of a list that are neither openid, offline_access, email,
\* profile, groups nor cross-client scopes
Unrecognized(scopes) ==
    SelectSeq(scopes, LAMBDA scope:
        /\ scope \notin {<<"openid">>, <<"offline_access">>, <<"email">>,
                         <<"profile">>, <<"groups">>}
        /\ ~HasPrefix(scope, scopeCrossClientPrefix))

\* the latest /auth request came from a client in storage with a redirect URI
\* registered for it
RedirectValidated ==
    /\ last.handler = "auth"
    /\ Has(clients, last.loc.form.client_id)
    /\ ~RedirectRefused

\* C20: an /auth request whose scope list lacks openid, or holds a scope that
\* is neither openid, offline_access, email, profile, groups nor a cross-client
\* scope, fails with invalid_scope; the description names the offending scopes
\* (openid when it is missing, else the unrecognized ones) and the error
\* carries the redirect URI already validated; nothing is stored.
C20_BadScopeIsInvalidScope ==
    (/\ RedirectValidated
     /\ \/ <<"openid">> \notin Range(last.loc.form.scope)
        \/ Len(Unrecognized(last.loc.form.scope)) > 0) =>
        /\ last.loc.err # Nil
        /\ LET err == Deref(last.loc.err) IN
           /\ err.Type = errInvalidScope
           /\ err.RedirectURI = Ptr(last.loc.form.redirect_uri)
           /\ IF <<"openid">> \notin Range(last.loc.form.scope)
              THEN err.Description = Sprintf("Missing required scope(s) [\"openid\"].", <<>>)
              ELSE err.Description = Sprintf("Unrecognized scope(s) %q",
                                             Unrecognized(last.loc.form.scope))
           /\ last.resp.err = errInvalidScope
        /\ ~last.wrote

\* a request with openid and a scope the server does not know
C20_Witness ==
    /\ RedirectValidated
    /\ <<"openid">> \in Range(last.loc.form.scope)
    /\ Len(Unrecognized(last.loc.form.scope)) > 0
    /\ last.loc.err # Nil
    /\ Deref(last.loc.err).RedirectURI = Ptr(appCallback)

\* the latest step completed a call of Keys.Decrypt on well-formed text
DecryptDone ==
    /\ last.handler = "secret"
    /\ last.loc.cipherText.base64
    /\ last.loc.cipherText.bytes.data.json

\* the keys that the rule "the current key, then each rotated key whose expiry
\* has not passed" makes usable with the Keys record k at time t
UsableKeys(k, t) ==
    (IF k.EncryptionKey = Nil THEN {} ELSE {Deref(k.EncryptionKey)})
    \cup {k.DecryptionKeys[j].Key :
             j \in {n \in DOMAIN k.DecryptionKeys : ~(k.DecryptionKeys[n].Expiry < t)}}

\* C21: Keys.Decrypt tries the current encryption key, then each rotated
\* decryption key in order, skipping a rotated key exactly when its expiry has
\* passed and using it while its expiry is in the future; it fails only when
\* every usable key fails to decrypt.
C21_DecryptUsesUnexpiredKeys ==
    DecryptDone =>
        /\ last.resp.ok <=>
               last.loc.cipherText.bytes.key \in UsableKeys(last.loc.keys, last.loc.t)
        /\ last.resp.ok => last.resp.v = last.loc.cipherText.bytes.data.v

\* C22: Keys.Decrypt(Keys.Encrypt(v)) yields v, with the same Keys record and
\* after a rotation that made the encrypting key a rotated decryption key
\* whose expiry has not passed.
C22_DecryptOfEncrypt ==
    (/\ DecryptDone
     /\ last.loc.v # Nil
     /\ last.loc.cipherText.bytes.key \in UsableKeys(last.loc.keys, last.loc.t)) =>
        /\ last.resp.ok
        /\ last.resp.v = Deref(last.loc.v)

\* C23: an ID token that the token endpoint issues verifies under a key of the
\* key set /keys serves at that moment, the current public signing key or a
\* listed verification key, also when the keys rotate between newIDToken
\* reading the Keys record and the answer.
C23_IssuedTokenVerifies ==
    (TokenDone /\ IsTokenResponse(last.resp)) =>
        /\ keys.SigningKeyPub # Nil
        /\ Deref(last.resp.token).id_token.key \in Range(jwks(keys))

\* a token issued after the key that signed it was rotated out
C23_Witness ==
    /\ TokenDone /\ IsTokenResponse(last.resp)
    /\ keys.SigningKeyPub # Ptr(Deref(last.resp.token).id_token.key)
    /\ \E j \in DOMAIN keys.VerificationKeys :
           keys.VerificationKeys[j].PublicKey = Deref(last.resp.token).id_token.key

\* C24: the key set /keys serves holds the current public signing key and
\* exactly the rotated verification keys that are still valid: a verification
\* key whose expiry is before now is not served, though the Keys record still
\* holds it.
C24_ServesValidKeysOnly ==
    (last.handler = "keys" /\ last.resp.status = StatusOK) =>
        LET k == last.loc.keys
            valid == SelectSeq(k.VerificationKeys, LAMBDA key: ~(key.Expiry < last.loc.t))
        IN  last.resp.jwks =
                <<Deref(k.SigningKeyPub)>> \o
                    [j \in 1..Len(valid) |-> valid[j].PublicKey]

\* C25: for every Storage implementation and every Refresh r: after
\* CreateRefresh(r), GetRefresh returns a record equal to r; after DeleteRefresh,
\* GetRefresh returns ErrNotFound, and a second DeleteRefresh returns not found.
C25_RefreshConformance ==
    /\ (last.handler = "testCreateRefresh" /\ last.loc.getErr = "") =>
           /\ last.loc.got = Ptr(last.loc.refresh)
           /\ last.loc.deleteErr = "" => last.loc.gotDeleted = ErrNotFound
    /\ last.handler = "DeleteRefresh" => last.resp.err = ErrNotFound

\* C26: for every Storage implementation: after CreateAuthRequest(a) and a
\* successful UpdateAuthRequest(a.ID, f), GetAuthRequest returns a with f
\* applied, the identity and the connector id set; updates of one id are
\* serialized, so none is lost.
C26_UpdateAuthRequestConformance ==
    (last.handler = "testUpdateAuthRequest" /\ last.loc.updateErr = ""
        /\ last.resp.desc # <<"failed creating auth request">>) =>
        last.loc.got = Ptr(updater(last.loc.a, last.loc.identity, "connID"))

\* the steps that end a CreateNonce or a DeleteNonce call
CreateNonceReturns == last'.handler = "CreateNonce" /\ <<last, nonces, reqs>>' # <<last, nonces, reqs>>
DeleteNonceReturns == last'.handler = "DeleteNonce" /\ <<last, nonces, reqs>>' # <<last, nonces, reqs>>

\* C27: CreateNonce fails with AlreadyExists when the value is present, and
\* leaves the stored nonce as it was; a DeleteNonce returns success only by
\* removing a row that was present, so of the concurrent DeleteNonce calls on
\* one nonce, in any interleaving, at most one returns success.
C27_NonceClaimedOnce ==
    [][/\ CreateNonceReturns =>
             IF Has(nonces, last'.loc.n.Nonce)
             THEN last'.resp.err = ErrAlreadyExists /\ nonces' = nonces
             ELSE last'.resp.err = "" /\ nonces' = Put(nonces, last'.loc.n.Nonce, last'.loc.n)
       /\ (DeleteNonceReturns /\ last'.resp.err = "") =>
             /\ Has(nonces, last'.loc.value)
             /\ ~Has(nonces', last'.loc.value)
             /\ \A j \in Slots :
                    (reqs'[j].pc = "DeleteNonce" /\ reqs'[j].loc.value = last'.loc.value) =>
                        deleteNonce(nonces', reqs'[j].loc.value).err = ErrNotFound
      ]_vars

\* a DeleteNonce that set out while the nonce was present returns not found:
\* it lost to a concurrent DeleteNonce
C27_Witness ==
    /\ last.handler = "DeleteNonce"
    /\ last.loc.present
    /\ last.resp.err = ErrNotFound

\* sendCodeResponse stored the code and answered
CodeSent ==
    /\ last.handler = "approval"
    /\ last.loc.sent
    /\ last.loc.deleted = "found"
    /\ last.resp.err = ""

\* the query of u without the parameters code and state
OtherParams(u) == [key \in DOMAIN Query(u) \ {"code", "state"} |-> Query(u)[key]]

\* C28: after a successful sendCodeResponse for a redirect URI other than the
\* out-of-band one, the answer is a 303 to the AuthRequest's redirectURI with
\* its query parameters kept, with code = the id of the AuthCode just stored
\* and state = the AuthRequest's State, the client's own state value, not the
\* id of the AuthRequest.
C28_CodeRedirect ==
    (CodeSent /\ Deref(last.loc.found).RedirectURI # oobRedirectURI) =>
        LET authReq == Deref(last.loc.found)
            target == Deref(last.resp.location)
        IN  /\ last.resp.status = StatusSeeOther
            /\ WithRawQuery(target, <<>>) = WithRawQuery(authReq.RedirectURI, <<>>)
            /\ OtherParams(target) = OtherParams(authReq.RedirectURI)
            /\ Query(target)["code"] = <<last.resp.code>>
            /\ Has(authCodes, last.resp.code)
            /\ Query(target)["state"] = <<authReq.State>>

\* a redirect for a redirect URI that came with parameters of its own, a state
\* among them
C28_Witness ==
    /\ CodeSent
    /\ "state" \in DOMAIN Query(Deref(last.loc.found).RedirectURI)
    /\ "a" \in DOMAIN Query(Deref(last.resp.location))

\* C29: the AuthCode that sendCodeResponse creates has a fresh id, an expiry of
\* now + 5 minutes, and the clientID, redirectURI, connectorID, nonce, scopes
\* and identity of the AuthRequest it consumed.
C29_CodeCopiesRequest ==
    [][CodeSent' =>
          LET authReq == Deref(last'.loc.found)
              id == last'.resp.code
          IN  /\ ~Has(authCodes, id) /\ ~Has(authRequests, id) /\ ~Has(refreshTokens, id)
              /\ id # authReq.ID
              /\ ~Has(authRequests', authReq.ID)
              /\ authCodes' =
                     Put(authCodes, id,
                         [ID |-> id, ClientID |-> authReq.ClientID,
                          RedirectURI |-> authReq.RedirectURI,
                          ConnectorID |-> authReq.ConnectorID, Nonce |-> authReq.Nonce,
                          Scopes |-> authReq.Scopes, Identity |-> Deref(authReq.Identity),
                          Expiry |-> now + CodeLifetime])
      ]_vars

\* a code created some time after the approval read the request, for a request
\* with a nonce and a connector's identity
C29_Witness ==
    /\ CodeSent
    /\ last.loc.t < now
    /\ Has(authCodes, last.resp.code)
    /\ authCodes[last.resp.code].Expiry = now + CodeLifetime
    /\ authCodes[last.resp.code].Nonce = "n1"
    /\ authCodes[last.resp.code].ConnectorID = "ldap"
    /\ authCodes[last.resp.code].Identity = ConnectorIdentity("ldap")

\* a connector handler ended after the connector had answered and s.groups had run
ConnectorAnswered ==
    /\ last.handler \in {"login", "callback"}
    /\ "groupsCalled" \in DOMAIN last.loc

\* the AuthRequest named by state has groups among its scopes
RequestsGroups(state) ==
    /\ Has(authRequests, state)
    /\ scopeGroups \in Range(authRequests[state].Scopes)

\* C30: the connector's Groups is called, and the groups of the identity
\* overwritten with its answer, only when the connector is a GroupsConnector
\* and the AuthRequest named by state has groups among its scopes; otherwise it
\* is never called, and the identity is stored with the groups the connector
\* returned it with.
C30_GroupsOnlyWhenRequested ==
    ConnectorAnswered =>
        LET conn == Connectors[last.loc.connectorID]
            stored == last.resp.status = StatusSeeOther
            asked == conn.groups /\ RequestsGroups(last.loc.state)
        IN  /\ last.loc.groupsCalled => conn.groups
            /\ (stored \/ "identity" \notin DOMAIN last.loc) =>
                   last.loc.groupsCalled = asked
            /\ stored =>
                   Deref(authRequests[last.loc.state].Identity) =
                       IF asked
                       THEN [ConnectorIdentity(last.loc.connectorID)
                                 EXCEPT !.Groups = ConnectorGroups]
                       ELSE ConnectorIdentity(last.loc.connectorID)

\* a GroupsConnector whose identity arrived with groups of its own, for a
\* request without the groups scope: Groups is not called and the groups stay
C30_Witness ==
    /\ ConnectorAnswered
    /\ last.resp.status = StatusSeeOther
    /\ Connectors[last.loc.connectorID].groups
    /\ ~last.loc.groupsCalled
    /\ Deref(authRequests[last.loc.state].Identity).Groups = <<"staff">>

\* C31: a POST /approval whose approval value is not "approve" does not call
\* sendCodeResponse: the request ends in that step without a storage call
\* ahead of it, no AuthCode is created and the AuthRequest stays in storage as
\* it was.
C31_RejectedApprovalSendsNothing ==
    [][\A i \in Slots, form \in ApprovalForms :
           (form.method = "POST" /\ form.approval # "approve" /\ HandleApproval(i, form)) =>
               /\ reqs'[i] = Idle
               /\ ~last'.loc.sent
               /\ last'.resp.code = 0
               /\ authCodes' = authCodes
               /\ authRequests' = authRequests
      ]_vars

\* a rejected approval of a request that a user had authenticated for
C31_Witness ==
    /\ last.handler = "approval"
    /\ last.resp.err = "approval rejected"
    /\ last.loc.found # Nil
    /\ Deref(last.loc.found).Identity # Nil
    /\ Get(authRequests, Deref(last.loc.found).ID) = last.loc.found
    /\ authCodes = NoRows

\* a count of seconds: the integer that so many minutes make in seconds
SecondsIn(minutes) == [minutes |-> minutes, times |-> "60"]

\* C32: in the access-token envelope, expires_in is the number of seconds
\* between now and the expiry of the ID token: a lifetime of N seconds yields
\* N, not N scaled by another unit of time.
C32_ExpiresInSeconds ==
    (TokenDone /\ IsTokenResponse(last.resp)) =>
        Deref(last.resp.token).expires_in = SecondsIn(idTokenExpiry(last.loc.t) - now)

\* C33: the Cache-Control max-age that /keys sends is max(nextRotation - now,
\* 2 minutes) in seconds: never less than 120, and the seconds until
\* nextRotation when that is more than 2 minutes away.
C33_MaxAgeInSeconds ==
    (last.handler = "keys" /\ last.resp.status = StatusOK) =>
        LET untilRotation == last.loc.keys.NextRotation - last.loc.t
            maxAge == IF untilRotation > MinMaxAge THEN untilRotation ELSE MinMaxAge
        IN  last.resp.cacheControl =
                Sprintf("max-age=%d, must-revalidate", <<SecondsIn(maxAge)>>)

\* the values the ConnectorData of an identity is varied over
ConnectorDataInputs == {<<>>, <<"upstream-token">>, <<"other-token">>}

\* an AuthRequest, and an AuthCode or Refresh, whose identity holds other
\* ConnectorData
RequestWithData(authReq, data) ==
    IF authReq.Identity = Nil THEN authReq
    ELSE [authReq EXCEPT !.Identity =
              Ptr([Deref(authReq.Identity) EXCEPT !.ConnectorData = data])]

GrantWithData(row, data) == [row EXCEPT !.Identity.ConnectorData = data]

\* C34: Identity.ConnectorData never reaches an OAuth client: every response
\* of /approval and /token (the redirect, the claims of the ID token, the token
\* envelope, the errors) is the one the handler gives when the identity it read
\* holds any other ConnectorData, so two runs that differ only in that data
\* answer alike.
C34_ConnectorDataStaysInside ==
    \A data \in ConnectorDataInputs :
        /\ (last.handler = "approval" /\ last.loc.found # Nil) =>
               LET authReq == RequestWithData(Deref(last.loc.found), data) IN
               /\ handleApprovalCheck(Ptr(authReq)) = handleApprovalCheck(last.loc.found)
               /\ CodeSent =>
                      last.resp = sendCodeResponsePage(authReq,
                                      AuthCode(last.resp.code, authReq, last.loc.t))
        /\ (TokenDone /\ last.loc.found # Nil) =>
               LET row == GrantWithData(Deref(last.loc.found), data) IN
               /\ CodeGrantDone =>
                      handleAuthCodeCheck(Ptr(row), last.loc.t, last.loc.client_id,
                                          last.loc.redirect_uri)
                          = handleAuthCodeCheck(last.loc.found, last.loc.t,
                                                last.loc.client_id, last.loc.redirect_uri)
               /\ RefreshGrantDone =>
                      handleRefreshTokenCheck(Ptr(row), last.loc.client_id)
                          = handleRefreshTokenCheck(last.loc.found, last.loc.client_id)
               /\ IsTokenResponse(last.resp) =>
                      /\ Ptr(Deref(last.resp.token).id_token.payload) =
                             newIDToken(last.loc.clients, last.loc.client_id, row.Identity,
                                        last.loc.scopes, row.Nonce)
                      /\ DOMAIN Deref(last.resp.token) =
                             {"id_token", "refresh_token", "expires_in"}

\* a token answered for an identity that holds ConnectorData
C34_Witness ==
    /\ RefreshGrantDone /\ IsTokenResponse(last.resp)
    /\ Deref(last.loc.found).Identity.ConnectorData = <<"upstream-token">>
    /\ "sub" \in DOMAIN Deref(last.resp.token).id_token.payload

\* baseURL without the slash it may end with
WithoutSlash(baseURL) ==
    IF HasSuffixSlash(baseURL) THEN SubSeq(baseURL, 1, Len(baseURL) - 1) ELSE baseURL

ClientGetDone == last.handler = "get"

\* C35: client.urlFor returns baseURL joined to the path by exactly one slash
\* whether or not baseURL ends with a slash; the path is "api/" for an empty
\* apiGroup and "apis/<apiGroup>/" otherwise, then the version, then
\* "namespaces/<namespace>/" only for a non-empty namespace, then the resource
\* and the name.
C35_URLFor ==
    ClientGetDone =>
        LET in == last.loc
            prefix == IF in.apiGroup = <<>> THEN <<"api", "/">>
                      ELSE <<"apis", "/">> \o in.apiGroup \o <<"/">>
            scope == IF in.namespace = <<>> THEN <<>>
                     ELSE <<"namespaces", "/">> \o in.namespace \o <<"/">>
            object == IF in.name = <<>> THEN in.resource
                      ELSE in.resource \o <<"/">> \o in.name
        IN
        last.resp.url = WithoutSlash(in.baseURL) \o <<"/">> \o prefix \o in.version
                            \o <<"/">> \o scope \o object

\* a URL for a client whose baseURL ends with a slash, in the core API group
\* and outside every namespace
C35_Witness ==
    /\ ClientGetDone
    /\ HasSuffixSlash(last.loc.baseURL)
    /\ last.loc.apiGroup = <<>> /\ last.loc.namespace = <<>> /\ last.loc.name # <<>>
    /\ last.resp.url = <<"https:", "/", "/", "k8s.example.com", "/", "api", "/", "v1",
                         "/", "pods", "/", "a">>

\* a handler of /approval is between DeleteAuthRequest and CreateAuthCode for
\* the AuthRequest id
CreatingCodeFor(id) ==
    \E i \in Slots : reqs[i].pc = "CreateAuthCode" /\ reqs[i].loc.authReq.ID = id

\* the request completed last is an /approval whose CreateAuthCode failed
CreateAuthCodeFailed ==
    /\ last.handler = "approval" /\ last.loc.sent /\ last.loc.deleted = "found"
    /\ last.resp = ServerError

\* C36: no AuthCode is in storage together with the AuthRequest it was derived
\* from: sendCodeResponse deletes the AuthRequest before it creates the
\* AuthCode, so once a code was created from a request, and while the code is
\* being created, the request is gone; when CreateAuthCode fails neither
\* record exists, and no code is ever created from a request that is gone
\* unless a handler already deleted it for that.
C36_NoCodeBesideItsRequest ==
    /\ [](\A id \in Ids :
             /\ codesIssued[id] > 0 => ~Has(authRequests, id)
             /\ CreatingCodeFor(id) => ~Has(authRequests, id) /\ codesIssued[id] = 0)
    /\ [](CreateAuthCodeFailed =>
             /\ ~Has(authRequests, Deref(last.loc.found).ID)
             /\ codesIssued[Deref(last.loc.found).ID] = 0)
    /\ [][\A id \in Ids :
             (~Has(authRequests, id) /\ ~CreatingCodeFor(id)) =>
                 codesIssued'[id] = codesIssued[id]]_vars

\* CreateAuthCode failed after the AuthRequest was deleted: neither record is
\* in storage
C36_Witness ==
    /\ CreateAuthCodeFailed
    /\ ~Has(authRequests, Deref(last.loc.found).ID)
    /\ authCodes = NoRows

\* C37: a refresh grant with a narrowed scope does not narrow the stored
\* grant: the Refresh stored in place of the one presented has its clientID,
\* connectorID, scopes, nonce and identity and differs in the refreshToken
\* alone, so every Refresh in storage still allows every scope the login was
\* approved for and a later refresh may request any of them again.
C37_NarrowedRefreshKeepsGrant ==
    /\ (RefreshGrantDone /\ IsTokenResponse(last.resp)) =>
           LET presented == Deref(last.loc.found)
               id == Deref(last.resp.token).refresh_token
           IN
           /\ Has(refreshTokens, id)
           /\ id # presented.RefreshToken
           /\ refreshTokens[id] = [presented EXCEPT !.RefreshToken = id]
    /\ \A id \in Ids :
           Has(refreshTokens, id) =>
               \A scope \in RefreshScopeInputs :
                   contains(scope, AuthForm.scope) => contains(scope, refreshTokens[id].Scopes)

\* a refresh grant answered for fewer scopes than the Refresh presented holds,
\* and the Refresh stored in its place holding them all
C37_Witness ==
    /\ RefreshGrantDone /\ IsTokenResponse(last.resp)
    /\ last.loc.scope = <<scopeOpenID, scopeEmail>>
    /\ last.loc.scopes = <<scopeOpenID, scopeEmail>>
    /\ refreshTokens[Deref(last.resp.token).refresh_token].Scopes = AuthForm.scope
    /\ scopeOfflineAccess \in Range(AuthForm.scope)

\* the code of the request belongs to another client than the one presenting it
CodeOfAnotherClient(form) ==
    Has(authCodes, form.code) /\ authCodes[form.code].ClientID # form.client_id

\* the code passes the checks of handleAuthCode and newIDToken fails on it
IDTokenFails(form) ==
    /\ Has(authCodes, form.code)
    /\ handleAuthCodeCheck(Get(authCodes, form.code), now, form.client_id,
                           form.redirect_uri) = Nil
    /\ newIDToken(clients, form.client_id, authCodes[form.code].Identity,
                  authCodes[form.code].Scopes, authCodes[form.code].Nonce) = Nil

\* an authenticated authorization_code request
CodeRequest(form) ==
    /\ form.grant_type = "authorization_code"
    /\ handleTokenClient(clients, form.client_id, form.client_secret) = Nil

\* C38: a POST /token authorization_code request that fails because the code
\* belongs to another client, or because newIDToken fails, leaves storage
\* unchanged: the request is answered with an error at once, the AuthCode is
\* not deleted, no Refresh is created, and the code passes the checks of
\* handleAuthCode for its rightful client while it has not expired.
C38_FailedCodeGrantKeepsCode ==
    [][\A i \in Slots, form \in TokenForms :
           (/\ CodeRequest(form)
            /\ CodeOfAnotherClient(form) \/ IDTokenFails(form)
            /\ HandleToken(i, form)) =>
               /\ reqs'[i] = Idle
               /\ ~IsTokenResponse(last'.resp) /\ last'.resp.status # StatusOK
               /\ storageVars' = storageVars
               /\ authCodes'[form.code] = authCodes[form.code]
               /\ now <= authCodes[form.code].Expiry =>
                      handleAuthCodeCheck(Get(authCodes', form.code), now',
                                          authCodes[form.code].ClientID,
                                          authCodes[form.code].RedirectURI) = Nil]_vars

\* the code was refused to another client and is in storage as it was
C38_Witness ==
    /\ CodeGrantDone /\ last.loc.found # Nil
    /\ Deref(last.loc.found).ClientID # last.loc.client_id
    /\ last.resp = ServerError
    /\ Get(authCodes, last.loc.presented) = last.loc.found

\* the request completed last is a GET /auth that stored its AuthRequest
AuthRequestStored == last.handler = "auth" /\ last.loc.err = Nil /\ last.wrote

\* C39: every AuthRequest stored by /auth carries an expiry strictly later than
\* its creation time, so a live request is not already expired when /approval
\* processes it.
C39_StoredRequestExpiresLater ==
    AuthRequestStored =>
        /\ Has(authRequests, nextNonce - 1)
        /\ authRequests[nextNonce - 1].Expiry > now

\* the request completed last is a refresh grant whose CreateRefresh failed
\* after its DeleteRefresh succeeded
RefreshCreateFailed ==
    /\ RefreshGrantDone /\ last.loc.deleted = "found"
    /\ ~IsTokenResponse(last.resp)

====
